---- MODULE Spec2Model ----
(***************************************************************************)
(* Verification model of the poker engine: the hand evaluator              *)
(* (src/src/engine/evaluator.py), the deck (src/src/models/deck.py), the   *)
(* equity calculator (src/src/engine/equity.py), the distribution          *)
(* calculator (src/src/engine/distribution.py), the outs detector          *)
(* (src/src/engine/outs.py), the pot odds (src/src/engine/odds.py), the    *)
(* advisor (src/src/advisor/advisor.py), the card parser                   *)
(* (src/src/models/card.py) and the card picker of the Streamlit           *)
(* application (src/app.py).                                               *)
(*                                                                         *)
(* A card is a record [rank, suit]; an evaluator tuple is                  *)
(* <<rank, suit_id, prime>> as built by card_to_tuple.                     *)
(***************************************************************************)
EXTENDS Integers, Sequences, FiniteSets, TLC

VARIABLES
    pc,         \* position of the running call
    cards,      \* evaluator input (first hand)
    cardsB,     \* evaluator input (second hand of a comparison)
    score,      \* value returned for cards (0 while nothing is returned)
    scoreB,     \* value returned for cardsB
    err,        \* exception raised by the call, "none" if none
    hero,       \* hero_cards of the equity call
    board,      \* board_cards of the equity call
    mc_iters,   \* mc_iters argument (0 stands for None, which "or" treats alike)
    seed,       \* seed argument: <<>> for None, <<n>> for the integer n
    rng,        \* state of the random source of the call
    iterations, \* iterations of _equity_mc
    path,       \* branch taken by equity_vs_random
    remaining,  \* remaining_t: the deck without hero and board
    ri,         \* index i of the river loop (turn enumeration)
    vi,         \* first index of the current villain combination
    vj,         \* second index of the current villain combination
    hero_score, \* hero's best-7 score for the current runout
    villain,    \* the villain hand compared last
    sample,     \* the sample drawn in the current Monte Carlo iteration
    iter,       \* number of Monte Carlo iterations done
    wins,
    ties,
    losses,
    result,     \* returned mapping (win, tie, lose as numerator/denominator)
    full_board, \* full_board_t: the completed board of the current runout
    mc_villain_score, \* villain's best-7 score for the sampled runout
    counts,     \* counts of hand_distribution: <<hand type, count>> in insertion order
    dist,       \* mapping returned by hand_distribution (items in order, denominator)
    deck,       \* self.cards of the Deck whose remove is called
    draws,      \* the result dict of detect_draws
    counted_outs, \* value returned by count_outs
    first_call, \* what the first of two calls with the same arguments returned
    calls,      \* number of calls made with the arguments
    pot,        \* pot argument of the odds helpers and of get_advice
    call_amount, \* call_amount argument
    equity,     \* equity argument (a float)
    ret,        \* value returned by the odds helper called
    advice,     \* dict returned by get_advice
    card_str,   \* argument of Card.from_string, of render_card_button
    parsed,     \* Card returned by Card.from_string, its printed form, and that parsed again
    hero_cards_selected,  \* st.session_state.hero_cards_selected
    board_cards_selected, \* st.session_state.board_cards_selected
    current_street        \* st.session_state.current_street

evalVars == <<cards, cardsB, score, scoreB>>
eqVars == <<hero, board, mc_iters, seed, rng, iterations, path, remaining, ri, vi, vj, hero_score,
            villain, sample, iter, wins, ties, losses, result>>
extVars == <<full_board, mc_villain_score, counts, dist, deck, draws, counted_outs, first_call, calls>>
appVars == <<pot, call_amount, equity, ret, advice, card_str, parsed, hero_cards_selected,
             board_cards_selected, current_street>>
vars == <<pc, err, evalVars, eqVars, extVars, appVars>>

(***************************************************************************)
(* Cards and deck                                                          *)
(***************************************************************************)
Suit == <<"h", "d", "c", "s">>

Card(r, s) == [rank |-> r, suit |-> s]

\* Deck.__init__: for suit in Suit: for rank in range(2, 15)
DeckCards == [k \in 1..52 |-> Card(2 + ((k - 1) % 13), Suit[1 + ((k - 1) \div 13)])]

(***************************************************************************)
(* Evaluator                                                               *)
(***************************************************************************)
RANK_PRIMES ==
    [r \in 2..14 |->
        CASE r = 2 -> 2 [] r = 3 -> 3 [] r = 4 -> 5 [] r = 5 -> 7
          [] r = 6 -> 11 [] r = 7 -> 13 [] r = 8 -> 17 [] r = 9 -> 19
          [] r = 10 -> 23 [] r = 11 -> 29 [] r = 12 -> 31 [] r = 13 -> 37
          [] r = 14 -> 41]

COMBO_7_5 ==
    << <<0,1,2,3,4>>, <<0,1,2,3,5>>, <<0,1,2,3,6>>, <<0,1,2,4,5>>, <<0,1,2,4,6>>,
       <<0,1,2,5,6>>, <<0,1,3,4,5>>, <<0,1,3,4,6>>, <<0,1,3,5,6>>, <<0,1,4,5,6>>,
       <<0,2,3,4,5>>, <<0,2,3,4,6>>, <<0,2,3,5,6>>, <<0,2,4,5,6>>, <<0,3,4,5,6>>,
       <<1,2,3,4,5>>, <<1,2,3,4,6>>, <<1,2,3,5,6>>, <<1,2,4,5,6>>, <<1,3,4,5,6>>,
       <<2,3,4,5,6>> >>

\* the ranks of the straight whose loop variable is _high
StraightRanks(high) ==
    IF high = 5 THEN <<14, 5, 4, 3, 2>>
    ELSE [k \in 1..5 |-> high - (k - 1)]

StraightProduct(high) ==
    LET t == StraightRanks(high)
    IN  RANK_PRIMES[t[1]] * RANK_PRIMES[t[2]] * RANK_PRIMES[t[3]]
          * RANK_PRIMES[t[4]] * RANK_PRIMES[t[5]]

\* the wheel stored under its ace
STRAIGHTS_AceHigh == {<<StraightProduct(high), StraightRanks(high)[1]>> : high \in 5..14}

\* the loop starting at 6: no wheel in the dictionary
STRAIGHTS_NoWheel == {<<StraightProduct(high), high>> : high \in 6..14}

\* the precomputed dictionary, as the set of its (product, high) items
STRAIGHTS == {<<StraightProduct(high), IF high = 5 THEN 5 ELSE high>> : high \in 5..14}

\* _STRAIGHTS.get(prime_product); 0 stands for None
StraightsGet(prime_product) ==
    LET hit == {e \in STRAIGHTS : e[1] = prime_product}
    IN  IF hit = {} THEN 0 ELSE (CHOOSE e \in hit : TRUE)[2]

\* a wrong order of the tests: the straight is looked at before the suits
Eval5NoPair_StraightFirst(r0, r1, r2, r3, r4, suits_same, prime_product) ==
    LET straight_high == StraightsGet(prime_product)
    IN  IF straight_high # 0
        THEN 5000000 + straight_high
        ELSE IF suits_same
        THEN 6000000 + r0 * 50625 + r1 * 3375 + r2 * 225 + r3 * 15 + r4
        ELSE 1000000 + r0 * 50625 + r1 * 3375 + r2 * 225 + r3 * 15 + r4

\* _eval5_fast, five distinct ranks: straight flush, flush, straight, high card
Eval5NoPair(r0, r1, r2, r3, r4, suits_same, prime_product) ==
    LET straight_high == StraightsGet(prime_product)
    IN  IF suits_same
        THEN IF straight_high # 0
             THEN 9000000 + straight_high
             ELSE 6000000 + r0 * 50625 + r1 * 3375 + r2 * 225 + r3 * 15 + r4
        ELSE IF straight_high # 0
             THEN 5000000 + straight_high
             ELSE 1000000 + r0 * 50625 + r1 * 3375 + r2 * 225 + r3 * 15 + r4

\* _eval5_fast, at least one pair: the pattern of the sorted ranks
Eval5Paired(r0, r1, r2, r3, r4) ==
    IF r0 = r1
    THEN IF r1 = r2
         THEN IF r2 = r3 THEN 8000000 + r0 * 100 + r4
              ELSE IF r3 = r4 THEN 7000000 + r0 * 100 + r3
              ELSE 4000000 + r0 * 10000 + r3 * 15 + r4
         ELSE IF r2 = r3
         THEN IF r3 = r4 THEN 7000000 + r2 * 100 + r0
              ELSE 3000000 + r0 * 10000 + r2 * 100 + r4
         ELSE IF r3 = r4 THEN 3000000 + r0 * 10000 + r3 * 100 + r2
         ELSE 2000000 + r0 * 10000 + r2 * 225 + r3 * 15 + r4
    ELSE IF r1 = r2
    THEN IF r2 = r3
         THEN IF r3 = r4 THEN 8000000 + r1 * 100 + r0
              ELSE 4000000 + r1 * 10000 + r0 * 15 + r4
         ELSE IF r3 = r4 THEN 3000000 + r1 * 10000 + r3 * 100 + r0
         ELSE 2000000 + r1 * 10000 + r0 * 225 + r3 * 15 + r4
    ELSE IF r2 = r3
    THEN IF r3 = r4 THEN 4000000 + r2 * 10000 + r0 * 15 + r1
         ELSE 2000000 + r2 * 10000 + r0 * 225 + r1 * 15 + r4
    ELSE 2000000 + r3 * 10000 + r0 * 225 + r1 * 15 + r2

eval5_fast(r0, r1, r2, r3, r4, suits_same, prime_product) ==
    IF r0 # r1 /\ r1 # r2 /\ r2 # r3 /\ r3 # r4
    THEN Eval5NoPair(r0, r1, r2, r3, r4, suits_same, prime_product)
    ELSE Eval5Paired(r0, r1, r2, r3, r4)

SuitId(s) == CHOOSE k \in 1..4 : Suit[k] = s

card_to_tuple(card) == <<card.rank, SuitId(card.suit), RANK_PRIMES[card.rank]>>

cards_to_tuples(cs) == [k \in 1..Len(cs) |-> card_to_tuple(cs[k])]

\* insert x into the descending sequence s
RECURSIVE InsertDesc(_, _)
InsertDesc(x, s) ==
    IF s = <<>> THEN <<x>>
    ELSE IF x >= Head(s) THEN <<x>> \o s
    ELSE <<Head(s)>> \o InsertDesc(x, Tail(s))

\* the sort without reverse=True
RECURSIVE SortedAscending(_)
SortedAscending(s) ==
    IF s = <<>> THEN <<>>
    ELSE LET m == CHOOSE k \in 1..Len(s) : \A j \in 1..Len(s) : s[k] <= s[j]
         IN  <<s[m]>> \o SortedAscending([k \in 1..(Len(s) - 1) |-> IF k < m THEN s[k] ELSE s[k + 1]])

\* sorted(..., reverse=True)
RECURSIVE SortedReverse(_)
SortedReverse(s) ==
    IF s = <<>> THEN <<>> ELSE InsertDesc(Head(s), SortedReverse(Tail(s)))

\* evaluate_5 past its length check
Evaluate5Score(cs) ==
    LET tuples == cards_to_tuples(cs)
        ranks_sorted == SortedReverse([k \in 1..5 |-> tuples[k][1]])
        suits_same == Cardinality({tuples[k][2] : k \in 1..5}) = 1
        prime_product == tuples[1][3] * tuples[2][3] * tuples[3][3]
                           * tuples[4][3] * tuples[5][3]
    IN  eval5_fast(ranks_sorted[1], ranks_sorted[2], ranks_sorted[3],
                   ranks_sorted[4], ranks_sorted[5], suits_same, prime_product)


Return(v) == [err |-> "none", value |-> v]
Raise(e) == [err |-> e, value |-> 0]

\* the length check written as "fewer than 5"
evaluate_5_AtLeast5(cs) ==
    IF Len(cs) < 5 THEN Raise("ValueError") ELSE Return(Evaluate5Score(cs))

evaluate_5(cs) ==
    IF Len(cs) # 5 THEN Raise("ValueError") ELSE Return(Evaluate5Score(cs))

\* if rx < ry: rx, ry = ry, rx; cx, cy = cy, cx   (t holds the five tuples)
CompareSwap(t, x, y) ==
    IF t[x][1] < t[y][1] THEN [t EXCEPT ![x] = t[y], ![y] = t[x]] ELSE t

\* the network without its last compare-swap
SortingNetwork_Short(picked) ==
    LET s1 == CompareSwap(picked, 1, 2)
        s2 == CompareSwap(s1, 4, 5)
        s3 == CompareSwap(s2, 1, 3)
        s4 == CompareSwap(s3, 2, 3)
        s5 == CompareSwap(s4, 1, 4)
        s6 == CompareSwap(s5, 3, 4)
        s7 == CompareSwap(s6, 2, 5)
    IN  CompareSwap(s7, 2, 3)

\* the nine compare-swaps of _best7_fast on (a, b, c, d, e), in their order
SortingNetwork(picked) ==
    LET s1 == CompareSwap(picked, 1, 2)
        s2 == CompareSwap(s1, 4, 5)
        s3 == CompareSwap(s2, 1, 3)
        s4 == CompareSwap(s3, 2, 3)
        s5 == CompareSwap(s4, 1, 4)
        s6 == CompareSwap(s5, 3, 4)
        s7 == CompareSwap(s6, 2, 5)
        s8 == CompareSwap(s7, 2, 3)
    IN  CompareSwap(s8, 4, 5)

\* the body of the loop of _best7_fast for one index combination
Best7ComboScore(tuples, combo) ==
    LET picked == [k \in 1..5 |-> tuples[combo[k] + 1]]
        t == SortingNetwork(picked)
        suits_same == \A k \in 1..4 : t[k][2] = t[k + 1][2]
        prime_product == t[1][3] * t[2][3] * t[3][3] * t[4][3] * t[5][3]
    IN  eval5_fast(t[1][1], t[2][1], t[3][1], t[4][1], t[5][1], suits_same, prime_product)

RECURSIVE Best7Loop(_, _, _)
Best7Loop(tuples, k, best) ==
    IF k > Len(COMBO_7_5) THEN best
    ELSE LET sc == Best7ComboScore(tuples, COMBO_7_5[k])
         IN  Best7Loop(tuples, k + 1, IF sc > best THEN sc ELSE best)

best7_fast(tuples) == Best7Loop(tuples, 1, 0)

best_hand_7(cs) ==
    IF Len(cs) # 7 THEN Raise("ValueError") ELSE Return(best7_fast(cards_to_tuples(cs)))

(***************************************************************************)
(* Inputs of the evaluator runs                                            *)
(***************************************************************************)
\* ranks used to build hands: 2..MaxLowRank and the ace
MaxLowRank == 6

EvalRanks == (2..MaxLowRank) \cup {14}

\* non-decreasing rank sequences in which no rank occurs five times
RankSeqs ==
    {s \in [1..5 -> EvalRanks] :
        /\ \A k \in 1..4 : s[k] <= s[k + 1]
        /\ s[1] # s[5]}

\* the hand of the given ranks: one suit, or the suits in rotation (equal ranks
\* are adjacent and at most four, so the five cards are distinct)
HandFromRanks(s, flush) ==
    [k \in 1..5 |-> Card(s[k], IF flush THEN "h" ELSE Suit[1 + ((k - 1) % 4)])]

GeneratedHands ==
    {HandFromRanks(s, FALSE) : s \in RankSeqs}
      \cup {HandFromRanks(s, TRUE) : s \in {t \in RankSeqs : \A k \in 1..4 : t[k] < t[k + 1]}}

\* hands of src/tests/test_evaluator.py and of the wheel example
TestHands ==
    { <<Card(14,"h"), Card(2,"d"), Card(3,"c"), Card(4,"s"), Card(5,"h")>>,
      <<Card(6,"h"), Card(5,"d"), Card(4,"c"), Card(3,"s"), Card(2,"d")>>,
      <<Card(5,"h"), Card(4,"d"), Card(3,"c"), Card(2,"s"), Card(14,"h")>>,
      <<Card(5,"d"), Card(4,"d"), Card(3,"d"), Card(2,"d"), Card(14,"d")>>,
      <<Card(6,"h"), Card(5,"h"), Card(4,"h"), Card(3,"h"), Card(2,"h")>>,
      <<Card(14,"h"), Card(13,"h"), Card(12,"h"), Card(11,"h"), Card(10,"h")>>,
      <<Card(9,"h"), Card(8,"h"), Card(7,"h"), Card(6,"h"), Card(5,"h")>>,
      <<Card(14,"h"), Card(13,"d"), Card(12,"c"), Card(11,"s"), Card(10,"h")>>,
      <<Card(9,"h"), Card(8,"d"), Card(7,"c"), Card(6,"s"), Card(5,"h")>>,
      <<Card(13,"h"), Card(13,"d"), Card(13,"c"), Card(13,"s"), Card(2,"h")>>,
      <<Card(13,"h"), Card(13,"d"), Card(9,"c"), Card(9,"s"), Card(14,"h")>>,
      <<Card(13,"h"), Card(13,"d"), Card(9,"c"), Card(9,"s"), Card(2,"h")>>,
      <<Card(13,"h"), Card(13,"d"), Card(14,"c"), Card(12,"s"), Card(11,"h")>>,
      <<Card(13,"h"), Card(13,"d"), Card(9,"c"), Card(7,"s"), Card(2,"h")>>,
      <<Card(14,"h"), Card(13,"d"), Card(12,"c"), Card(11,"s"), Card(9,"h")>>,
      <<Card(14,"h"), Card(13,"d"), Card(12,"c"), Card(11,"s"), Card(8,"h")>> }

Hands5 == GeneratedHands \cup TestHands

(***************************************************************************)
(* Variables a run leaves alone                                            *)
(***************************************************************************)
NoResult == [win |-> 0, tie |-> 0, lose |-> 0, total |-> 0]

EvalIdle == cards = <<>> /\ cardsB = <<>> /\ score = 0 /\ scoreB = 0

EqIdle ==
    /\ hero = <<>> /\ board = <<>> /\ mc_iters = 0 /\ path = "none"
    /\ seed = <<>> /\ rng = 0 /\ iterations = 0
    /\ remaining = <<>> /\ ri = 0 /\ vi = 0 /\ vj = 0 /\ hero_score = 0
    /\ villain = <<>> /\ sample = <<>> /\ iter = 0
    /\ wins = 0 /\ ties = 0 /\ losses = 0 /\ result = NoResult

\* hand_distribution has returned nothing
NoDist == [items |-> <<>>, total |-> 0]

\* result = {'flush_draw': None, 'straight_draws': [], 'total_outs': 0, 'out_cards': []}
EmptyDraws == [flush_draw |-> <<>>, straight_draws |-> <<>>, total_outs |-> 0, out_cards |-> <<>>]

NoFirst == [fn |-> "none", result |-> NoResult, dist |-> NoDist]

ExtIdle ==
    /\ full_board = <<>> /\ mc_villain_score = 0 /\ counts = <<>> /\ dist = NoDist
    /\ deck = <<>> /\ draws = EmptyDraws /\ counted_outs = 0 /\ first_call = NoFirst /\ calls = 0

\* the float 0.0: a float is sign * m * 2^e, m a natural number written as its
\* bits, lowest first, without a lowest 0 bit (<<>> is zero)
NoFloat == [sign |-> 1, m |-> <<>>, e |-> 0]

\* the odds helper has returned nothing
NoRet == [value |-> NoFloat,
          dict |-> [pot_odds |-> NoFloat, equity |-> NoFloat, ev |-> NoFloat,
                    profitable |-> FALSE, edge |-> NoFloat]]

\* get_advice has returned nothing
NoAdvice == [action |-> "none", confidence |-> "none", rationale |-> <<>>, bet_sizing |-> <<>>]

\* Card.from_string has returned nothing
NoParsed == [card |-> <<>>, str |-> <<>>, again |-> <<>>]

AppIdle ==
    /\ pot = <<>> /\ call_amount = <<>> /\ equity = NoFloat /\ ret = NoRet
    /\ advice = NoAdvice /\ card_str = <<>> /\ parsed = NoParsed
    /\ hero_cards_selected = <<>> /\ board_cards_selected = <<>>
    /\ current_street = "preflop"

(***************************************************************************)
(* Two calls of evaluate_5, as a comparison of two hands                   *)
(***************************************************************************)
InitEval5 == pc = "start" /\ err = "none" /\ AppIdle /\ EvalIdle /\ EqIdle /\ ExtIdle

Evaluate5First ==
    /\ pc = "start"
    /\ \E h \in Hands5 :
        LET r == evaluate_5(h)
        IN  /\ cards' = h
            /\ score' = r.value
            /\ err' = r.err
    /\ pc' = "first"
    /\ UNCHANGED <<cardsB, scoreB, eqVars, extVars, appVars>>

Evaluate5Second ==
    /\ pc = "first"
    /\ err = "none"
    /\ \E h \in Hands5 :
        LET r == evaluate_5(h)
        IN  /\ cardsB' = h
            /\ scoreB' = r.value
            /\ err' = r.err
    /\ pc' = "second"
    /\ UNCHANGED <<cards, score, eqVars, extVars, appVars>>

NextEval5 == Evaluate5First \/ Evaluate5Second

SpecEval5 == InitEval5 /\ [][NextEval5]_vars

(***************************************************************************)
(* One call of best_hand_7 on seven cards given in any order               *)
(***************************************************************************)
\* how many of the seven-card hands below the runs use
NumSevenHands == 3

\* seven-card hands of src/tests/test_evaluator.py (three pairs, a straight among
\* seven distinct ranks, a full house, a flush), then a suited wheel with a
\* pair, two sets of trips, and quads with a straight
SevenHands ==
    << <<Card(14,"h"), Card(14,"d"), Card(13,"c"), Card(13,"s"), Card(12,"h"), Card(12,"d"), Card(2,"c")>>,
       <<Card(9,"h"), Card(8,"d"), Card(7,"c"), Card(6,"s"), Card(5,"h"), Card(14,"h"), Card(2,"d")>>,
       <<Card(14,"h"), Card(14,"d"), Card(14,"c"), Card(13,"s"), Card(13,"h"), Card(3,"d"), Card(2,"c")>>,
       <<Card(14,"h"), Card(13,"h"), Card(12,"h"), Card(11,"h"), Card(9,"h"), Card(8,"d"), Card(7,"c")>>,
       <<Card(14,"s"), Card(2,"s"), Card(3,"s"), Card(4,"s"), Card(5,"s"), Card(5,"d"), Card(9,"c")>>,
       <<Card(10,"h"), Card(10,"d"), Card(10,"c"), Card(4,"h"), Card(4,"d"), Card(4,"c"), Card(13,"s")>>,
       <<Card(8,"h"), Card(8,"d"), Card(8,"c"), Card(8,"s"), Card(7,"h"), Card(6,"d"), Card(5,"c")>> >>

SevenHandCount == IF NumSevenHands < Len(SevenHands) THEN NumSevenHands ELSE Len(SevenHands)

\* the seven cards of the call: one of the hands, in any order
InitBest7 ==
    /\ pc = "start" /\ err = "none" /\ AppIdle /\ EqIdle /\ ExtIdle
    /\ cardsB = <<>> /\ score = 0 /\ scoreB = 0
    /\ \E n \in 1..SevenHandCount, p \in Permutations(1..7) :
        cards = [k \in 1..7 |-> SevenHands[n][p[k]]]

BestHand7 ==
    /\ pc = "start"
    /\ LET r == best_hand_7(cards)
       IN  score' = r.value /\ err' = r.err
    /\ pc' = "best7"
    /\ UNCHANGED <<cards, cardsB, scoreB, eqVars, extVars, appVars>>

NextBest7 == BestHand7

SpecBest7 == InitBest7 /\ [][NextBest7]_vars

(***************************************************************************)
(* Calls of evaluate_5 and best_hand_7 with any number of cards            *)
(***************************************************************************)
\* longest input of the size runs
MaxInputLen == 8

\* number of starts of an input: it takes every third card of the deck from there
MaxInputStart == 8

InitSize ==
    /\ pc = "start" /\ err = "none" /\ AppIdle /\ EqIdle /\ ExtIdle
    /\ cardsB = <<>> /\ score = 0 /\ scoreB = 0
    /\ \E first \in 1..MaxInputStart, n \in 0..MaxInputLen :
        cards = [k \in 1..n |-> DeckCards[1 + ((3 * (first + k - 2)) % 52)]]

CallEvaluate5 ==
    /\ pc = "start"
    /\ LET r == evaluate_5(cards)
       IN  score' = r.value /\ err' = r.err
    /\ pc' = "evaluate_5"
    /\ UNCHANGED <<cards, cardsB, scoreB, eqVars, extVars, appVars>>

CallBestHand7 ==
    /\ pc = "start"
    /\ LET r == best_hand_7(cards)
       IN  score' = r.value /\ err' = r.err
    /\ pc' = "best_hand_7"
    /\ UNCHANGED <<cards, cardsB, scoreB, eqVars, extVars, appVars>>

NextSize == CallEvaluate5 \/ CallBestHand7

SpecSize == InitSize /\ [][NextSize]_vars

(***************************************************************************)
(* Deck                                                                    *)
(***************************************************************************)
\* list.remove(card): the list without the first occurrence of card
RemoveFirst(list, card) ==
    LET at == CHOOSE k \in 1..Len(list) : list[k] = card /\ \A j \in 1..(k - 1) : list[j] # card
    IN  [k \in 1..(Len(list) - 1) |-> IF k < at THEN list[k] ELSE list[k + 1]]

\* the loop of Deck.remove over cards_to_remove, from its k-th card on
RECURSIVE DeckRemoveLoop(_, _, _)
DeckRemoveLoop(rem, cards_to_remove, k) ==
    IF k > Len(cards_to_remove) THEN Return(rem)
    ELSE IF \A j \in 1..Len(rem) : rem[j] # cards_to_remove[k]
    THEN Raise("ValueError")
    ELSE DeckRemoveLoop(RemoveFirst(rem, cards_to_remove[k]), cards_to_remove, k + 1)

\* Deck().remove(cards_to_remove)
DeckRemove(cards_to_remove) == DeckRemoveLoop(DeckCards, cards_to_remove, 1)

(***************************************************************************)
(* Equity calculator                                                       *)
(***************************************************************************)
\* default iteration counts of the sampling paths
DefaultFlopIters == 30000

DefaultPreflopIters == 10000

\* number of states of the random source
RngStates == 12

\* a random source that takes its state from the system whatever the seed
RandomNew_IgnoresSeed(sd, entropy) == entropy

\* random.Random(seed): seeded, the state is a function of the seed; unseeded,
\* it comes from the entropy of the system
RandomNew(sd, entropy) == IF sd = <<>> THEN entropy ELSE sd[1] % RngStates

\* the state of the random source after one sample
RngAdvance(x) == (5 * x + 7) % RngStates

\* rng.sample(population, k): k places of the population, no place twice, as a
\* function of the state of the random source
RngSample(x, population, k) ==
    LET n == Len(population)
        stride == 1 + (x % 3)
    IN  [j \in 1..k |-> population[1 + ((4 * x + (j - 1) * stride) % n)]]

\* mc_iters or default
IterationsOr(iters, default) == IF iters # 0 THEN iters ELSE default

\* the pairs of itertools.combinations(pool, 2), by their places i < j in the
\* pool of n cards: the pair after (i, j), and the test that none is left
NextCombination(i, j, n) == IF j < n THEN <<i, j + 1>> ELSE <<i + 1, i + 2>>

CombinationsDone(i, j, n) == j > n

\* the pool that keeps the river card
VillainPool_KeepsRiver(rem, i) == rem

\* villain_pool = remaining_t[:i] + remaining_t[i+1:]   (i counted from 1 here)
VillainPool(rem, i) ==
    [k \in 1..(Len(rem) - 1) |-> IF k < i THEN rem[k] ELSE rem[k + 1]]

\* the board sizes of preflop, flop, turn and river
ValidBoardLen == {0, 3, 4, 5}

\* the chain written with "board of at most 3 cards" for the sampling paths
Dispatch_AtMost3(num_hero, num_board) ==
    IF num_hero # 2 \/ num_board > 5 THEN "ValueError"
    ELSE IF num_board = 5 THEN "river_exact"
    ELSE IF num_board = 4 THEN "turn_exact"
    ELSE IF num_board <= 3 THEN "mc"
    ELSE "ValueError"

\* the checks and the if/elif chain of equity_vs_random
Dispatch(num_hero, num_board) ==
    IF num_hero # 2 \/ num_board > 5 THEN "ValueError"
    ELSE IF num_board = 5 THEN "river_exact"
    ELSE IF num_board = 4 THEN "turn_exact"
    ELSE IF num_board = 3 \/ num_board = 0 THEN "mc"
    ELSE "ValueError"

\* equity_vs_random up to the first loop of the path it dispatches to
EquityCall ==
    /\ pc = "start"
    /\ LET num_board == Len(board)
           to == Dispatch(Len(hero), num_board)
           rem == DeckRemove(hero \o board)
           NoSetup == UNCHANGED <<remaining, ri, vi, vj, hero_score, rng, iterations>>
       IN  IF to = "ValueError"
           THEN /\ err' = "ValueError" /\ pc' = "raised" /\ path' = "none" /\ NoSetup
           ELSE IF to = "river_exact"
           THEN /\ path' = to
                /\ IF rem.err # "none"
                   THEN /\ err' = rem.err /\ pc' = "raised" /\ NoSetup
                   ELSE /\ remaining' = cards_to_tuples(rem.value)
                        /\ hero_score' = best7_fast(cards_to_tuples(hero) \o cards_to_tuples(board))
                        /\ vi' = 1 /\ vj' = 2
                        /\ pc' = "river" /\ err' = "none"
                        /\ UNCHANGED <<ri, rng, iterations>>
           ELSE IF to = "turn_exact"
           THEN /\ path' = to
                /\ IF rem.err # "none"
                   THEN /\ err' = rem.err /\ pc' = "raised" /\ NoSetup
                   ELSE /\ remaining' = cards_to_tuples(rem.value)
                        /\ ri' = 0
                        /\ pc' = "turn_outer" /\ err' = "none"
                        /\ UNCHANGED <<vi, vj, hero_score, rng, iterations>>
           ELSE /\ path' = to
                /\ iterations' = IterationsOr(mc_iters,
                                   IF num_board = 3 THEN DefaultFlopIters ELSE DefaultPreflopIters)
                /\ \E entropy \in 0..(RngStates - 1) : rng' = RandomNew(seed, entropy)
                /\ IF rem.err # "none"
                   THEN /\ err' = rem.err /\ pc' = "raised"
                        /\ UNCHANGED <<remaining, ri, vi, vj, hero_score>>
                   ELSE /\ remaining' = cards_to_tuples(rem.value)
                        /\ pc' = "mc" /\ err' = "none"
                        /\ UNCHANGED <<ri, vi, vj, hero_score>>
    /\ UNCHANGED <<evalVars, extVars, appVars, hero, board, mc_iters, seed, villain, sample, iter,
                   wins, ties, losses, result>>

\* a tie tallied as a win
Tally_TieAsWin(h, v) ==
    /\ wins' = IF h >= v THEN wins + 1 ELSE wins
    /\ ties' = ties
    /\ losses' = IF h >= v THEN losses ELSE losses + 1

\* if hero_score > villain_score: wins += 1 / elif ==: ties += 1 / else: losses += 1
Tally(h, v) ==
    /\ wins' = IF h > v THEN wins + 1 ELSE wins
    /\ ties' = IF h > v THEN ties ELSE IF h = v THEN ties + 1 ELSE ties
    /\ losses' = IF h > v THEN losses ELSE IF h = v THEN losses ELSE losses + 1

\* total = wins + ties + losses; return {'win': wins / total, ...}
ReturnCounts(total) ==
    IF total = 0
    THEN /\ err' = "ZeroDivisionError" /\ pc' = "raised" /\ UNCHANGED result
    ELSE /\ result' = [win |-> wins, tie |-> ties, lose |-> losses, total |-> total]
         /\ pc' = "done" /\ UNCHANGED err

\* one pass of the loop of _equity_river_exact
RiverStep ==
    /\ pc = "river"
    /\ ~CombinationsDone(vi, vj, Len(remaining))
    /\ LET v == <<remaining[vi], remaining[vj]>>
           villain_score == best7_fast(v \o cards_to_tuples(board))
           next == NextCombination(vi, vj, Len(remaining))
       IN  /\ villain' = v
           /\ Tally(hero_score, villain_score)
           /\ vi' = next[1] /\ vj' = next[2]
    /\ UNCHANGED <<pc, err, evalVars, extVars, appVars, hero, board, mc_iters, seed, rng, iterations, path,
                   remaining, ri, hero_score, sample, iter, result>>

RiverReturn ==
    /\ pc = "river"
    /\ CombinationsDone(vi, vj, Len(remaining))
    /\ ReturnCounts(wins + ties + losses)
    /\ UNCHANGED <<evalVars, extVars, appVars, hero, board, mc_iters, seed, rng, iterations, path, remaining,
                   ri, vi, vj, hero_score, villain, sample, iter, wins, ties, losses>>

\* the completed board of the runout whose river card is remaining_t[i]
FullBoard(i) == cards_to_tuples(board) \o <<remaining[i]>>

\* the outer loop of _equity_turn_exact takes its next river card
TurnRiverCard ==
    /\ pc = "turn_outer"
    /\ ri < Len(remaining)
    /\ ri' = ri + 1
    /\ hero_score' = best7_fast(cards_to_tuples(hero) \o FullBoard(ri + 1))
    /\ vi' = 1 /\ vj' = 2
    /\ pc' = "turn_inner"
    /\ UNCHANGED <<err, evalVars, extVars, appVars, hero, board, mc_iters, seed, rng, iterations, path,
                   remaining, villain, sample, iter, wins, ties, losses, result>>

\* one pass of the inner loop of _equity_turn_exact
TurnStep ==
    /\ pc = "turn_inner"
    /\ LET villain_pool == VillainPool(remaining, ri)
           n == Len(villain_pool)
       IN  IF CombinationsDone(vi, vj, n)
           THEN /\ pc' = "turn_outer"
                /\ UNCHANGED <<vi, vj, villain, wins, ties, losses>>
           ELSE LET v == <<villain_pool[vi], villain_pool[vj]>>
                    villain_score == best7_fast(v \o FullBoard(ri))
                    next == NextCombination(vi, vj, n)
                IN  /\ villain' = v
                    /\ Tally(hero_score, villain_score)
                    /\ vi' = next[1] /\ vj' = next[2]
                    /\ pc' = IF CombinationsDone(next[1], next[2], n) THEN "turn_outer" ELSE "turn_inner"
    /\ UNCHANGED <<err, evalVars, extVars, appVars, hero, board, mc_iters, seed, rng, iterations, path,
                   remaining, ri, hero_score, sample, iter, result>>

TurnReturn ==
    /\ pc = "turn_outer"
    /\ ri >= Len(remaining)
    /\ ReturnCounts(wins + ties + losses)
    /\ UNCHANGED <<evalVars, extVars, appVars, hero, board, mc_iters, seed, rng, iterations, path, remaining,
                   ri, vi, vj, hero_score, villain, sample, iter, wins, ties, losses>>

\* longest run of the sampling loop that is followed
MaxMcSteps == 2

\* the opponent's hand taken from the sample one place early
VillainOf_Overlap(smp, cards_to_come) == <<smp[cards_to_come], smp[cards_to_come + 1]>>

\* villain_t = (sample[cards_to_come], sample[cards_to_come + 1])   (places from 1 here)
VillainOf(smp, cards_to_come) == <<smp[cards_to_come + 1], smp[cards_to_come + 2]>>

\* one pass of the loop of _equity_mc
McIteration ==
    /\ pc = "mc"
    /\ iter < iterations
    /\ iter < MaxMcSteps
    /\ LET cards_to_come == 5 - Len(board)
           sample_size == cards_to_come + 2
           smp == RngSample(rng, remaining, sample_size)
           full_board_t == cards_to_tuples(board) \o SubSeq(smp, 1, cards_to_come)
           villain_t == VillainOf(smp, cards_to_come)
           h == best7_fast(cards_to_tuples(hero) \o full_board_t)
           v == best7_fast(villain_t \o full_board_t)
       IN  /\ sample' = smp
           /\ full_board' = full_board_t
           /\ villain' = villain_t
           /\ hero_score' = h
           /\ mc_villain_score' = v
           /\ Tally(h, v)
    /\ rng' = RngAdvance(rng)
    /\ iter' = iter + 1
    /\ UNCHANGED <<pc, err, evalVars, hero, board, mc_iters, seed, iterations, path,
                   remaining, ri, vi, vj, result, counts, dist, deck, draws, counted_outs, first_call, calls, appVars>>

\* return {'win': wins / iterations, ...}
McReturn ==
    /\ pc = "mc"
    /\ iter >= iterations
    /\ IF iterations = 0
       THEN /\ err' = "ZeroDivisionError" /\ pc' = "raised" /\ UNCHANGED result
       ELSE /\ result' = [win |-> wins, tie |-> ties, lose |-> losses, total |-> iterations]
            /\ pc' = "done" /\ UNCHANGED err
    /\ UNCHANGED <<evalVars, extVars, appVars, hero, board, mc_iters, seed, rng, iterations, path, remaining,
                   ri, vi, vj, hero_score, villain, sample, iter, wins, ties, losses>>

(***************************************************************************)
(* One call of equity_vs_random                                            *)
(***************************************************************************)
\* largest numbers of hero and board cards passed
MaxHeroLen == 3

MaxBoardLen == 6

\* largest seed passed
MaxSeed == 1

\* hero and board are the first cards of these lists: with 2 and 5 cards the
\* river hand, with 2 and 4 cards the turn hand of src/tests/test_equity.py
HeroCards == <<Card(14,"h"), Card(13,"d"), Card(7,"s"), Card(7,"c"), Card(6,"s")>>

BoardCards ==
    <<Card(12,"h"), Card(11,"c"), Card(10,"c"), Card(2,"d"), Card(3,"h"),
      Card(9,"s"), Card(8,"s"), Card(4,"c"), Card(5,"c")>>

\* the other river hands of src/tests/test_equity.py
RiverTestHands ==
    { [hero |-> <<Card(14,"h"), Card(13,"h")>>,
       board |-> <<Card(12,"h"), Card(11,"h"), Card(9,"h"), Card(2,"d"), Card(3,"c")>>],
      [hero |-> <<Card(2,"h"), Card(3,"d")>>,
       board |-> <<Card(14,"h"), Card(13,"c"), Card(9,"d"), Card(7,"s"), Card(5,"h")>>] }

Prefix(list, n) == SubSeq(list, 1, IF n < Len(list) THEN n ELSE Len(list))

\* the arguments of the call: every number of hero and board cards; iteration
\* count and seed vary where they are read, on the flop and before it
EquityArgs ==
    {[hero |-> Prefix(HeroCards, h), board |-> Prefix(BoardCards, b), mc_iters |-> 0, seed |-> <<>>] :
        h \in 1..MaxHeroLen, b \in 0..MaxBoardLen}
      \cup {[hero |-> t.hero, board |-> t.board, mc_iters |-> 0, seed |-> <<>>] : t \in RiverTestHands}
      \cup {[hero |-> Prefix(HeroCards, 2), board |-> Prefix(BoardCards, b), mc_iters |-> m, seed |-> sd] :
              b \in {0, 3}, m \in (-1)..MaxMcSteps, sd \in {<<>>} \cup {<<n>> : n \in 0..MaxSeed}}

InitEquity ==
    /\ pc = "start" /\ err = "none" /\ AppIdle /\ EvalIdle /\ ExtIdle
    /\ \E a \in EquityArgs :
        /\ hero = a.hero /\ board = a.board /\ mc_iters = a.mc_iters /\ seed = a.seed
    /\ path = "none" /\ rng = 0 /\ iterations = 0
    /\ remaining = <<>> /\ ri = 0 /\ vi = 0 /\ vj = 0 /\ hero_score = 0
    /\ villain = <<>> /\ sample = <<>> /\ iter = 0
    /\ wins = 0 /\ ties = 0 /\ losses = 0 /\ result = NoResult

NextEquity ==
    \/ EquityCall
    \/ RiverStep
    \/ RiverReturn
    \/ TurnRiverCard
    \/ TurnStep
    \/ TurnReturn
    \/ McIteration
    \/ McReturn

SpecEquity == InitEquity /\ [][NextEquity]_vars

(***************************************************************************)
(* Distribution calculator (src/src/engine/distribution.py)                *)
(***************************************************************************)
\* _HAND_TYPES: score thresholds and names, highest first
HAND_TYPES ==
    << <<9000000, "straight_flush">>, <<8000000, "four_of_a_kind">>, <<7000000, "full_house">>,
       <<6000000, "flush">>, <<5000000, "straight">>, <<4000000, "three_of_a_kind">>,
       <<3000000, "two_pair">>, <<2000000, "one_pair">>, <<1000000, "high_card">> >>

\* _score_to_hand_type: the name of the first threshold the score reaches
RECURSIVE ScoreToHandTypeLoop(_, _)
ScoreToHandTypeLoop(sc, k) ==
    IF k > Len(HAND_TYPES) THEN "high_card"
    ELSE IF sc >= HAND_TYPES[k][1] THEN HAND_TYPES[k][2]
    ELSE ScoreToHandTypeLoop(sc, k + 1)

score_to_hand_type(sc) == ScoreToHandTypeLoop(sc, 1)

\* default iteration count of the sampling path of hand_distribution
DefaultDistIters == 10000

\* _best7_fast called without a length check: cards[a] for a in 0..6 fails on
\* fewer than 7 tuples, and tuples after the seventh are never read
Best7Call(tuples) ==
    IF Len(tuples) < 7 THEN Raise("IndexError") ELSE Return(best7_fast(tuples))

\* the count kept at 1 for a hand type seen again
CountsAdd_NoIncrement(cnts, ht) ==
    IF \E k \in 1..Len(cnts) : cnts[k][1] = ht THEN cnts ELSE Append(cnts, <<ht, 1>>)

\* counts[hand_type] = counts.get(hand_type, 0) + 1   (a dict keeps insertion order)
CountsAdd(cnts, ht) ==
    IF \E k \in 1..Len(cnts) : cnts[k][1] = ht
    THEN [k \in 1..Len(cnts) |-> IF cnts[k][1] = ht THEN <<ht, cnts[k][2] + 1>> ELSE cnts[k]]
    ELSE Append(cnts, <<ht, 1>>)

\* insert an item after the items whose key (sign * count) is not larger: the
\* step of a stable sort
RECURSIVE InsertByKey(_, _, _)
InsertByKey(x, s, sign) ==
    IF s = <<>> THEN <<x>>
    ELSE IF sign * x[2] < sign * Head(s)[2] THEN <<x>> \o s
    ELSE <<Head(s)>> \o InsertByKey(x, Tail(s), sign)

RECURSIVE SortedItemsLoop(_, _, _, _)
SortedItemsLoop(items, k, done, sign) ==
    IF k > Len(items) THEN done
    ELSE SortedItemsLoop(items, k + 1, InsertByKey(items[k], done, sign), sign)

\* the items sorted by their count itself
SortedByCount_Ascending(cnts) == SortedItemsLoop(cnts, 1, <<>>, 1)

\* sorted(counts.items(), key=lambda x: -x[1])
SortedByCount(cnts) == SortedItemsLoop(cnts, 1, <<>>, -1)

\* the if/elif/else chain of hand_distribution
DistDispatch(num_board) ==
    IF num_board = 5 THEN "dist_river"
    ELSE IF num_board = 4 THEN "dist_turn"
    ELSE "dist_mc"

\* hand_distribution up to the return of the river path or the first loop of
\* the other paths
DistributionCall ==
    /\ pc = "start"
    /\ LET to == DistDispatch(Len(board))
           hero_t == cards_to_tuples(hero)
           board_t == cards_to_tuples(board)
           rem == DeckRemove(hero \o board)
       IN  /\ path' = to
           /\ IF to = "dist_river"
              THEN LET b7 == Best7Call(hero_t \o board_t)
                   IN  /\ IF b7.err # "none"
                          THEN /\ err' = b7.err /\ pc' = "raised" /\ UNCHANGED <<dist, hero_score>>
                          ELSE /\ hero_score' = b7.value
                               /\ dist' = [items |-> << <<score_to_hand_type(b7.value), 1>> >>,
                                           total |-> 1]
                               /\ pc' = "done" /\ err' = "none"
                       /\ UNCHANGED <<remaining, rng, iterations>>
              ELSE IF to = "dist_turn"
              THEN /\ IF rem.err # "none"
                      THEN /\ err' = rem.err /\ pc' = "raised" /\ UNCHANGED remaining
                      ELSE /\ remaining' = cards_to_tuples(rem.value)
                           /\ pc' = "dist_turn" /\ err' = "none"
                   /\ UNCHANGED <<dist, hero_score, rng, iterations>>
              ELSE /\ iterations' = IterationsOr(mc_iters, DefaultDistIters)
                   /\ \E entropy \in 0..(RngStates - 1) : rng' = RandomNew(seed, entropy)
                   /\ IF rem.err # "none"
                      THEN /\ err' = rem.err /\ pc' = "raised" /\ UNCHANGED remaining
                      ELSE /\ remaining' = cards_to_tuples(rem.value)
                           /\ pc' = "dist_mc" /\ err' = "none"
                   /\ UNCHANGED <<dist, hero_score>>
    /\ UNCHANGED <<evalVars, hero, board, mc_iters, seed, ri, vi, vj, villain, sample, iter,
                   wins, ties, losses, result, full_board, mc_villain_score, counts, deck,
                   draws, counted_outs, first_call, calls, appVars>>

\* the body of both loops: score the runout and count its hand type
CountRunout(full_board_t) ==
    LET b7 == Best7Call(cards_to_tuples(hero) \o full_board_t)
    IN  /\ full_board' = full_board_t
        /\ IF b7.err # "none"
           THEN /\ err' = b7.err /\ pc' = "raised" /\ UNCHANGED <<hero_score, counts>>
           ELSE /\ hero_score' = b7.value
                /\ counts' = CountsAdd(counts, score_to_hand_type(b7.value))
                /\ UNCHANGED <<pc, err>>

\* one pass of the loop of _distribution_turn (total is the index ri)
DistTurnStep ==
    /\ pc = "dist_turn"
    /\ ri < Len(remaining)
    /\ CountRunout(cards_to_tuples(board) \o <<remaining[ri + 1]>>)
    /\ ri' = ri + 1
    /\ UNCHANGED <<evalVars, hero, board, mc_iters, seed, rng, iterations, path, remaining,
                   vi, vj, villain, sample, iter, wins, ties, losses, result,
                   mc_villain_score, dist, deck, draws, counted_outs, first_call, calls, appVars>>

\* return {ht: c / total for ht, c in sorted(...)}
DistTurnReturn ==
    /\ pc = "dist_turn"
    /\ ri >= Len(remaining)
    /\ dist' = [items |-> SortedByCount(counts), total |-> ri]
    /\ pc' = "done"
    /\ UNCHANGED <<err, evalVars, eqVars, full_board, mc_villain_score, counts, deck, draws,
                   counted_outs, first_call, calls, appVars>>

\* one pass of the loop of _distribution_mc; rng.sample raises ValueError for a
\* negative sample size
DistMcIteration ==
    /\ pc = "dist_mc"
    /\ iter < iterations
    /\ iter < MaxMcSteps
    /\ LET cards_to_come == 5 - Len(board)
       IN  IF cards_to_come < 0 \/ cards_to_come > Len(remaining)
           THEN /\ err' = "ValueError" /\ pc' = "raised"
                /\ UNCHANGED <<sample, full_board, hero_score, counts, rng, iter>>
           ELSE LET smp == RngSample(rng, remaining, cards_to_come)
                IN  /\ sample' = smp
                    /\ CountRunout(cards_to_tuples(board) \o smp)
                    /\ rng' = RngAdvance(rng)
                    /\ iter' = iter + 1
    /\ UNCHANGED <<evalVars, hero, board, mc_iters, seed, iterations, path, remaining,
                   ri, vi, vj, villain, wins, ties, losses, result,
                   mc_villain_score, dist, deck, draws, counted_outs, first_call, calls, appVars>>

\* return {ht: c / iterations for ht, c in sorted(...)}
DistMcReturn ==
    /\ pc = "dist_mc"
    /\ iter >= iterations
    /\ dist' = [items |-> SortedByCount(counts), total |-> iterations]
    /\ pc' = "done"
    /\ UNCHANGED <<err, evalVars, eqVars, full_board, mc_villain_score, counts, deck, draws,
                   counted_outs, first_call, calls, appVars>>

(***************************************************************************)
(* One call of hand_distribution                                           *)
(***************************************************************************)
\* the river and turn hands of src/tests/test_distribution.py
DistTestHands ==
    { [hero |-> <<Card(14,"h"), Card(13,"h")>>,
       board |-> <<Card(12,"h"), Card(11,"h"), Card(9,"h"), Card(2,"d"), Card(3,"c")>>],
      [hero |-> <<Card(14,"h"), Card(2,"d")>>,
       board |-> <<Card(14,"c"), Card(9,"s"), Card(7,"h"), Card(4,"d"), Card(3,"c")>>],
      [hero |-> <<Card(14,"h"), Card(13,"h")>>,
       board |-> <<Card(12,"h"), Card(7,"h"), Card(3,"d"), Card(2,"c")>>],
      [hero |-> <<Card(14,"h"), Card(13,"d")>>,
       board |-> <<Card(12,"h"), Card(11,"c"), Card(9,"s"), Card(2,"d")>>] }

\* the arguments of the call: every number of hero and board cards, the hands
\* of the tests, and every iteration count and seed on the sampling path
DistArgs ==
    {[hero |-> Prefix(HeroCards, h), board |-> Prefix(BoardCards, b), mc_iters |-> m, seed |-> <<>>] :
        h \in 1..MaxHeroLen, b \in 0..MaxBoardLen, m \in 1..MaxMcSteps}
      \cup {[hero |-> t.hero, board |-> t.board, mc_iters |-> 0, seed |-> <<>>] : t \in DistTestHands}
      \cup {[hero |-> Prefix(HeroCards, 2), board |-> Prefix(BoardCards, b), mc_iters |-> m, seed |-> sd] :
              b \in {0, 3}, m \in (-1)..MaxMcSteps, sd \in {<<>>} \cup {<<n>> : n \in 0..MaxSeed}}

\* the locals of a call before it runs
CallIdle ==
    /\ path = "none" /\ rng = 0 /\ iterations = 0
    /\ remaining = <<>> /\ ri = 0 /\ vi = 0 /\ vj = 0 /\ hero_score = 0
    /\ villain = <<>> /\ sample = <<>> /\ iter = 0
    /\ wins = 0 /\ ties = 0 /\ losses = 0 /\ result = NoResult

InitDist ==
    /\ pc = "start" /\ err = "none" /\ AppIdle /\ EvalIdle /\ ExtIdle /\ CallIdle
    /\ \E a \in DistArgs :
        /\ hero = a.hero /\ board = a.board /\ mc_iters = a.mc_iters /\ seed = a.seed

NextDist ==
    \/ DistributionCall
    \/ DistTurnStep
    \/ DistTurnReturn
    \/ DistMcIteration
    \/ DistMcReturn

SpecDist == InitDist /\ [][NextDist]_vars

(***************************************************************************)
(* Two calls with the same arguments on the sampling paths                 *)
(***************************************************************************)
\* hero and board of the seeded tests (Ah Kd before the flop and on the flop
\* Qh Jc Tc) and a pair of sevens; every iteration count that is followed
SeededArgs ==
    {[hero |-> h, board |-> Prefix(BoardCards, b), mc_iters |-> m, seed |-> sd] :
        h \in {SubSeq(HeroCards, 1, 2), SubSeq(HeroCards, 3, 4)}, b \in {0, 3},
        m \in 1..MaxMcSteps, sd \in {<<>>} \cup {<<n>> : n \in 0..MaxSeed}}

InitTwice ==
    /\ pc = "start" /\ err = "none" /\ AppIdle /\ EvalIdle /\ ExtIdle /\ CallIdle
    /\ \E a \in SeededArgs :
        /\ hero = a.hero /\ board = a.board /\ mc_iters = a.mc_iters /\ seed = a.seed

\* the first call has returned; the caller keeps its result and calls again
\* with the same arguments: the second call starts with fresh locals
CallAgain ==
    /\ pc = "done"
    /\ calls = 0
    /\ first_call' = [fn |-> path, result |-> result, dist |-> dist]
    /\ calls' = 1
    /\ pc' = "start"
    /\ path' = "none" /\ rng' = 0 /\ iterations' = 0
    /\ remaining' = <<>> /\ ri' = 0 /\ vi' = 0 /\ vj' = 0 /\ hero_score' = 0
    /\ villain' = <<>> /\ sample' = <<>> /\ iter' = 0
    /\ wins' = 0 /\ ties' = 0 /\ losses' = 0 /\ result' = NoResult
    /\ full_board' = <<>> /\ mc_villain_score' = 0 /\ counts' = <<>> /\ dist' = NoDist
    /\ UNCHANGED <<err, evalVars, hero, board, mc_iters, seed, deck, draws, counted_outs,
                   appVars>>

NextTwice ==
    \/ EquityCall
    \/ McIteration
    \/ McReturn
    \/ DistributionCall
    \/ DistMcIteration
    \/ DistMcReturn
    \/ CallAgain

SpecTwice == InitTwice /\ [][NextTwice]_vars

(***************************************************************************)
(* Calls with the same card twice across hero and board                    *)
(***************************************************************************)
\* the list with its j-th card replaced by a copy of its i-th
WithDuplicate(list, i, j) == [k \in 1..Len(list) |-> IF k = j THEN list[i] ELSE list[k]]

\* last place of hero + board that holds the copy
MaxDupPlace == 7

\* hero Ah Kd and a board of 0, 3, 4 or 5 cards, the card at one place replaced
\* by a copy of the card at an earlier place
InitDup ==
    /\ pc = "start" /\ err = "none" /\ AppIdle /\ EvalIdle /\ ExtIdle /\ CallIdle
    /\ \E b \in ValidBoardLen, i \in 1..(MaxDupPlace - 1), sd \in {<<>>, <<0>>} :
        \E j \in (i + 1)..MaxDupPlace :
            LET all == Prefix(HeroCards, 2) \o Prefix(BoardCards, b)
            IN  /\ j <= Len(all)
                /\ hero = SubSeq(WithDuplicate(all, i, j), 1, 2)
                /\ board = SubSeq(WithDuplicate(all, i, j), 3, Len(all))
                /\ mc_iters = 1 /\ seed = sd

NextDup ==
    \/ EquityCall
    \/ DistributionCall

SpecDup == InitDup /\ [][NextDup]_vars

(***************************************************************************)
(* One call of Deck.remove on a Deck object                                *)
(***************************************************************************)
\* the list the loop of Deck.remove has reached when it ends or raises
RECURSIVE RemovedSoFar(_, _, _)
RemovedSoFar(rem, cards_to_remove, k) ==
    IF k > Len(cards_to_remove) THEN rem
    ELSE IF \A j \in 1..Len(rem) : rem[j] # cards_to_remove[k] THEN rem
    ELSE RemovedSoFar(RemoveFirst(rem, cards_to_remove[k]), cards_to_remove, k + 1)

\* the loop run on self.cards itself: the deck loses the cards
SelfCardsAfterRemove_NoCopy(self_cards, cards_to_remove) ==
    RemovedSoFar(self_cards, cards_to_remove, 1)

\* remaining = self.cards.copy(): the loop removes from the copy, self.cards is
\* not assigned
SelfCardsAfterRemove(self_cards, cards_to_remove) == self_cards

\* longest list of cards to remove
MaxRemoveLen == 3

\* the cards listed for removal: those of the tests (Ah, Ks), the first and
\* the last card of the deck, and a card in the middle
RemoveCards == {Card(14,"h"), Card(13,"s"), Card(2,"h"), Card(14,"s"), Card(7,"d")}

RECURSIVE CardLists(_)
CardLists(n) ==
    IF n = 0 THEN {<<>>}
    ELSE CardLists(n - 1) \cup {Append(l, c) : l \in {x \in CardLists(n - 1) : Len(x) = n - 1},
                                                c \in RemoveCards}

\* deck = Deck(); the list to remove may name a card twice
InitDeck ==
    /\ pc = "start" /\ err = "none" /\ AppIdle /\ EqIdle
    /\ cardsB = <<>> /\ score = 0 /\ scoreB = 0
    /\ cards \in CardLists(MaxRemoveLen)
    /\ full_board = <<>> /\ mc_villain_score = 0 /\ counts = <<>> /\ dist = NoDist
    /\ deck = DeckCards
    /\ draws = EmptyDraws /\ counted_outs = 0 /\ first_call = NoFirst /\ calls = 0

\* deck.remove(cards) returns the remaining list
DeckRemoveReturns ==
    /\ pc = "start"
    /\ LET r == DeckRemoveLoop(deck, cards, 1)
       IN  /\ r.err = "none"
           /\ remaining' = r.value
           /\ pc' = "done"
           /\ UNCHANGED err
    /\ deck' = SelfCardsAfterRemove(deck, cards)
    /\ UNCHANGED <<evalVars, hero, board, mc_iters, seed, rng, iterations, path, ri, vi, vj,
                   hero_score, villain, sample, iter, wins, ties, losses, result,
                   full_board, mc_villain_score, counts, dist, draws, counted_outs, first_call, calls, appVars>>

\* deck.remove(cards) raises ValueError
DeckRemoveRaises ==
    /\ pc = "start"
    /\ LET r == DeckRemoveLoop(deck, cards, 1)
       IN  /\ r.err # "none"
           /\ err' = r.err
           /\ pc' = "raised"
           /\ UNCHANGED remaining
    /\ deck' = SelfCardsAfterRemove(deck, cards)
    /\ UNCHANGED <<evalVars, hero, board, mc_iters, seed, rng, iterations, path, ri, vi, vj,
                   hero_score, villain, sample, iter, wins, ties, losses, result,
                   full_board, mc_villain_score, counts, dist, draws, counted_outs, first_call, calls, appVars>>

NextDeck ==
    \/ DeckRemoveReturns
    \/ DeckRemoveRaises

SpecDeck == InitDeck /\ [][NextDeck]_vars

(***************************************************************************)
(* Outs and draw detector (src/src/engine/outs.py)                         *)
(***************************************************************************)
\* the keys of Counter(c.suit for c in all_cards), in the order first seen
RECURSIVE SuitCountKeys(_, _, _)
SuitCountKeys(all_cards, k, keys) ==
    IF k > Len(all_cards) THEN keys
    ELSE IF \E j \in 1..Len(keys) : keys[j] = all_cards[k].suit
    THEN SuitCountKeys(all_cards, k + 1, keys)
    ELSE SuitCountKeys(all_cards, k + 1, Append(keys, all_cards[k].suit))

\* the number of cards of a list that have the suit
SuitCount(cs, suit) == Cardinality({k \in 1..Len(cs) : cs[k].suit = suit})

\* the test written as "4 or more of the suit"
IsFourToFlush_AtLeast4(count) == count >= 4

\* if count == 4
IsFourToFlush(count) == count = 4

\* out_cards: (rank, suit) for rank in range(2, 15) if rank not in known_ranks
FlushOutCards(all_cards, suit) ==
    LET known_ranks == {all_cards[k].rank : k \in {j \in 1..Len(all_cards) : all_cards[j].suit = suit}}
        NotKnown(rs) == rs[1] \notin known_ranks
    IN  SelectSeq([k \in 1..13 |-> <<k + 1, suit>>], NotKnown)

\* the loop of _detect_flush_draw over suit_counts.items(); None is <<>>
RECURSIVE FlushDrawLoop(_, _, _, _)
FlushDrawLoop(hero_cards, all_cards, keys, k) ==
    IF k > Len(keys) THEN <<>>
    ELSE LET suit == keys[k]
             hero_suited == SuitCount(hero_cards, suit)
             out_cards == FlushOutCards(all_cards, suit)
         IN  IF IsFourToFlush(SuitCount(all_cards, suit)) /\ hero_suited # 0
             THEN << [suit |-> suit, outs |-> Len(out_cards),
                      hero_cards_in_suit |-> hero_suited, out_cards_rs |-> out_cards] >>
             ELSE FlushDrawLoop(hero_cards, all_cards, keys, k + 1)

detect_flush_draw(hero_cards, board_cards) ==
    LET all_cards == hero_cards \o board_cards
    IN  FlushDrawLoop(hero_cards, all_cards, SuitCountKeys(all_cards, 1, <<>>), 1)

\* windows: the wheel, then low..low+4 for low in range(2, 11)
WINDOWS == << <<14, 2, 3, 4, 5>> >> \o [low \in 1..9 |-> [j \in 1..5 |-> low + j]]

WindowSet(window) == {window[j] : j \in 1..5}

\* the two tests a window passes before its target is taken
WindowQualifies(window, all_ranks, hero_ranks) ==
    /\ ~(Cardinality(WindowSet(window) \cap all_ranks) # 4
           \/ Cardinality(WindowSet(window) \ all_ranks) # 1)
    /\ (hero_ranks \cap WindowSet(window)) # {}

\* the loop that reports a target seen before again
RECURSIVE StraightDrawLoop_NoSeen(_, _, _, _, _, _)
StraightDrawLoop_NoSeen(all_ranks, hero_ranks, known_cards, k, found, seen_targets) ==
    IF k > Len(WINDOWS) THEN found
    ELSE IF ~WindowQualifies(WINDOWS[k], all_ranks, hero_ranks)
    THEN StraightDrawLoop_NoSeen(all_ranks, hero_ranks, known_cards, k + 1, found, seen_targets)
    ELSE LET target_rank == CHOOSE r \in WindowSet(WINDOWS[k]) \ all_ranks : TRUE
             outs == Cardinality({s \in 1..4 : <<target_rank, Suit[s]>> \notin known_cards})
         IN  StraightDrawLoop_NoSeen(all_ranks, hero_ranks, known_cards, k + 1,
                              Append(found, [target_ranks |-> <<target_rank>>, outs |-> outs]),
                              seen_targets)

\* the loop of _detect_straight_draws over the windows
RECURSIVE StraightDrawLoop(_, _, _, _, _, _)
StraightDrawLoop(all_ranks, hero_ranks, known_cards, k, found, seen_targets) ==
    IF k > Len(WINDOWS) THEN found
    ELSE IF ~WindowQualifies(WINDOWS[k], all_ranks, hero_ranks)
    THEN StraightDrawLoop(all_ranks, hero_ranks, known_cards, k + 1, found, seen_targets)
    ELSE LET target_rank == CHOOSE r \in WindowSet(WINDOWS[k]) \ all_ranks : TRUE
             outs == Cardinality({s \in 1..4 : <<target_rank, Suit[s]>> \notin known_cards})
         IN  IF target_rank \in seen_targets
             THEN StraightDrawLoop(all_ranks, hero_ranks, known_cards, k + 1, found, seen_targets)
             ELSE StraightDrawLoop(all_ranks, hero_ranks, known_cards, k + 1,
                                   Append(found, [target_ranks |-> <<target_rank>>, outs |-> outs]),
                                   seen_targets \cup {target_rank})

\* _classify_draws for one draw: 'oesd' if some window that contains the target
\* has 4 held ranks and the target at its first or last place
ClassifyDraw(draw, all_ranks) ==
    LET target == draw.target_ranks[1]
        is_oesd == \E k \in 1..Len(WINDOWS) :
                      /\ target \in WindowSet(WINDOWS[k])
                      /\ Cardinality({j \in 1..5 : WINDOWS[k][j] \in all_ranks}) = 4
                      /\ (WINDOWS[k][1] = target \/ WINDOWS[k][5] = target)
    IN  [target_ranks |-> draw.target_ranks, outs |-> draw.outs,
         type |-> IF is_oesd THEN "oesd" ELSE "gutshot"]

detect_straight_draws(hero_cards, board_cards) ==
    LET all_cards == hero_cards \o board_cards
        all_ranks == {all_cards[k].rank : k \in 1..Len(all_cards)}
        hero_ranks == {hero_cards[k].rank : k \in 1..Len(hero_cards)}
        known_cards == {<<all_cards[k].rank, all_cards[k].suit>> : k \in 1..Len(all_cards)}
        found == StraightDrawLoop(all_ranks, hero_ranks, known_cards, 1, <<>>, {})
    IN  [k \in 1..Len(found) |-> ClassifyDraw(found[k], all_ranks)]

\* the place of a suit among the suit values 'c', 'd', 'h', 's'
SuitValueOrder(suit) == CHOOSE k \in 1..4 : <<"c", "d", "h", "s">>[k] = suit

\* sorted(out_ranks_and_suits, key=lambda x: (-x[0], x[1].value))
RECURSIVE SortedOutCards(_)
SortedOutCards(S) ==
    IF S = {} THEN <<>>
    ELSE LET x == CHOOSE c \in S : \A d \in S :
                      \/ c[1] > d[1]
                      \/ c[1] = d[1] /\ SuitValueOrder(c[2]) <= SuitValueOrder(d[2])
         IN  <<x>> \o SortedOutCards(S \ {x})

\* the test written as "a board of 3 or more cards"
DrawsDetected_AtLeast3(num_board) == num_board >= 3

\* num_board in (3, 4)
DrawsDetected(num_board) == num_board \in {3, 4}

\* the flush outs and the straight outs counted apart
TotalOuts_Sum(flush_outs, straight_outs) == Cardinality(flush_outs) + Cardinality(straight_outs)

\* out_ranks_and_suits.add(..) for the flush outs, then for the straight outs;
\* result['total_outs'] = len(out_ranks_and_suits)
TotalOuts(flush_outs, straight_outs) == Cardinality(flush_outs \cup straight_outs)

detect_draws(hero_cards, board_cards) ==
    IF ~DrawsDetected(Len(board_cards)) THEN EmptyDraws
    ELSE LET all_cards == hero_cards \o board_cards
             known == {<<all_cards[k].rank, all_cards[k].suit>> : k \in 1..Len(all_cards)}
             flush_info == detect_flush_draw(hero_cards, board_cards)
             straight_draws == detect_straight_draws(hero_cards, board_cards)
             flush_outs ==
                 IF flush_info = <<>> THEN {}
                 ELSE {flush_info[1].out_cards_rs[k] : k \in 1..Len(flush_info[1].out_cards_rs)}
             straight_outs ==
                 {<<straight_draws[k].target_ranks[1], Suit[s]>> :
                     k \in 1..Len(straight_draws), s \in 1..4} \ known
             out_ranks_and_suits == flush_outs \cup straight_outs
         IN  [flush_draw |-> flush_info,
              straight_draws |-> straight_draws,
              total_outs |-> TotalOuts(flush_outs, straight_outs),
              out_cards |-> SortedOutCards(out_ranks_and_suits)]

\* return detect_draws(hero_cards, board_cards)['total_outs']
count_outs(hero_cards, board_cards) == detect_draws(hero_cards, board_cards).total_outs

(***************************************************************************)
(* One call of detect_draws or of count_outs                               *)
(***************************************************************************)
\* longest board passed to the detector
MaxOutsBoardLen == 6

\* the cards hero and board are taken from: six hearts, the ranks of the wheel,
\* of the six-high and of the ace-high straight, a pair of fours and of threes
OutsCards ==
    <<Card(14,"h"), Card(2,"h"), Card(3,"h"), Card(4,"h"), Card(6,"h"), Card(13,"h"),
      Card(4,"d"), Card(5,"d"), Card(12,"d"), Card(11,"c"), Card(3,"s")>>

\* the cards at a set of places of OutsCards, in the order of the places
RECURSIVE CardsAt(_)
CardsAt(P) ==
    IF P = {} THEN <<>>
    ELSE LET k == CHOOSE x \in P : \A y \in P : x <= y
         IN  <<OutsCards[k]>> \o CardsAt(P \ {k})

\* hero is any two of the cards; a flop or a turn is any three or four of the
\* others, a board of another length the first of the others
InitOuts ==
    /\ pc = "start" /\ err = "none" /\ AppIdle /\ EvalIdle /\ ExtIdle /\ CallIdle
    /\ mc_iters = 0 /\ seed = <<>>
    /\ \E H \in SUBSET (1..Len(OutsCards)) :
        /\ Cardinality(H) = 2
        /\ hero = CardsAt(H)
        /\ \/ \E B \in SUBSET ((1..Len(OutsCards)) \ H) :
                /\ Cardinality(B) \in {3, 4}
                /\ board = CardsAt(B)
           \/ \E n \in 0..MaxOutsBoardLen :
                /\ n \notin {3, 4}
                /\ board = Prefix(CardsAt((1..Len(OutsCards)) \ H), n)

DetectDraws ==
    /\ pc = "start"
    /\ draws' = detect_draws(hero, board)
    /\ pc' = "done"
    /\ UNCHANGED <<err, evalVars, eqVars, full_board, mc_villain_score, counts, dist, deck,
                   counted_outs, first_call, calls, appVars>>

CountOuts ==
    /\ pc = "start"
    /\ counted_outs' = count_outs(hero, board)
    /\ pc' = "counted"
    /\ UNCHANGED <<err, evalVars, eqVars, full_board, mc_villain_score, counts, dist, deck,
                   draws, first_call, calls, appVars>>

NextOuts ==
    \/ DetectDraws
    \/ CountOuts

SpecOuts == InitOuts /\ [][NextOuts]_vars

(***************************************************************************)
(* Python floats (IEEE 754 binary64, round to nearest, ties to even), for  *)
(* the values the odds helpers and the advisor compute.  A float is        *)
(* sign * m * 2^e with m written as its bits, lowest first.  The values of *)
(* the model stay far from the overflow and the subnormal range.           *)
(***************************************************************************)
\* bits of the significand of a binary64
MantissaBits == 53

\* the bits of the natural number n, lowest first
RECURSIVE NatBits(_)
NatBits(n) == IF n = 0 THEN <<>> ELSE <<n % 2>> \o NatBits(n \div 2)

\* bits without 0 bits at the high end
RECURSIVE Norm(_)
Norm(bits) ==
    IF bits = <<>> \/ bits[Len(bits)] = 1 THEN bits
    ELSE Norm(SubSeq(bits, 1, Len(bits) - 1))

BitAt(bits, i) == IF i <= Len(bits) THEN bits[i] ELSE 0

\* a + b from place i on, with the carry into place i
RECURSIVE AddBitsFrom(_, _, _, _)
AddBitsFrom(a, b, i, carry) ==
    IF i > Len(a) /\ i > Len(b)
    THEN IF carry = 1 THEN <<1>> ELSE <<>>
    ELSE LET s == BitAt(a, i) + BitAt(b, i) + carry
         IN  <<s % 2>> \o AddBitsFrom(a, b, i + 1, s \div 2)

AddBits(a, b) == AddBitsFrom(a, b, 1, 0)

\* a - b from place i on, with the borrow out of place i - 1 (a >= b)
RECURSIVE SubBitsFrom(_, _, _, _)
SubBitsFrom(a, b, i, borrow) ==
    IF i > Len(a) THEN <<>>
    ELSE LET d == BitAt(a, i) - BitAt(b, i) - borrow
         IN  <<d % 2>> \o SubBitsFrom(a, b, i + 1, IF d < 0 THEN 1 ELSE 0)

SubBits(a, b) == Norm(SubBitsFrom(a, b, 1, 0))

\* a < b, for bits without high 0 bits
LessBits(a, b) ==
    \/ Len(a) < Len(b)
    \/ /\ Len(a) = Len(b)
       /\ \E i \in 1..Len(a) :
            /\ a[i] < b[i]
            /\ \A j \in (i + 1)..Len(a) : a[j] = b[j]

\* bits * 2^k
ShiftLeft(bits, k) == IF bits = <<>> THEN <<>> ELSE [i \in 1..k |-> 0] \o bits

\* a * b: b shifted to the place of every 1 bit of a, added up
RECURSIVE MulBitsFrom(_, _, _)
MulBitsFrom(a, b, i) ==
    IF i > Len(a) THEN <<>>
    ELSE LET rest == MulBitsFrom(a, b, i + 1)
         IN  IF a[i] = 1 THEN AddBits(ShiftLeft(b, i - 1), rest) ELSE rest

MulBits(a, b) == IF Len(a) <= Len(b) THEN MulBitsFrom(a, b, 1) ELSE MulBitsFrom(b, a, 1)

\* the same value with an odd m (or zero as +0.0 with e = 0)
RECURSIVE Canon(_)
Canon(x) ==
    IF x.m = <<>> THEN [sign |-> 1, m |-> <<>>, e |-> 0]
    ELSE IF x.m[1] = 1 THEN x
    ELSE Canon([sign |-> x.sign, m |-> Tail(x.m), e |-> x.e + 1])

\* round to nearest, ties to even: sign * bits * 2^e (plus, when sticky, a
\* fraction below the lowest bit) as a float of MantissaBits bits
RoundFloat(sign, bits, e, sticky) ==
    LET L == Len(bits)
        d == L - MantissaBits
    IN  IF d <= 0 THEN Canon([sign |-> sign, m |-> bits, e |-> e])
        ELSE LET kept == SubSeq(bits, d + 1, L)
                 half == bits[d] = 1
                 below == sticky \/ \E i \in 1..(d - 1) : bits[i] = 1
                 up == half /\ (below \/ kept[1] = 1)
             IN  Canon([sign |-> sign,
                        m |-> IF up THEN AddBits(kept, <<1>>) ELSE kept,
                        e |-> e + d])

\* float(n) for an int n (exact below 2^53)
FloatOfInt(n) ==
    RoundFloat(IF n < 0 THEN -1 ELSE 1, NatBits(IF n < 0 THEN -n ELSE n), 0, FALSE)

\* the bits of rem / b after the bits found so far, one bit of the quotient a
\* step, until the remainder is 0 or one bit more than a significand is there
RECURSIVE RatioBits(_, _, _, _)
RatioBits(bits, rem, b, e) ==
    IF rem = 0 \/ Len(bits) > MantissaBits
    THEN [bits |-> bits, e |-> e, sticky |-> rem # 0]
    ELSE LET bit == IF 2 * rem >= b THEN 1 ELSE 0
         IN  RatioBits(IF bits = <<>> /\ bit = 0 THEN <<>> ELSE <<bit>> \o bits,
                       2 * rem - bit * b, b, e - 1)

\* a / b for ints a >= 0 and b > 0: the float nearest to the quotient
FloatOfRatio(a, b) ==
    LET q == RatioBits(NatBits(a \div b), a % b, b, 0)
    IN  RoundFloat(1, q.bits, q.e, q.sticky)

FloatNeg(x) == IF x.m = <<>> THEN x ELSE [sign |-> -x.sign, m |-> x.m, e |-> x.e]

\* x + y
FloatAdd(x, y) ==
    LET e0 == IF x.e <= y.e THEN x.e ELSE y.e
        xm == ShiftLeft(x.m, x.e - e0)
        ym == ShiftLeft(y.m, y.e - e0)
    IN  IF x.sign = y.sign THEN RoundFloat(x.sign, AddBits(xm, ym), e0, FALSE)
        ELSE IF LessBits(xm, ym) THEN RoundFloat(y.sign, SubBits(ym, xm), e0, FALSE)
        ELSE RoundFloat(x.sign, SubBits(xm, ym), e0, FALSE)

\* x - y
FloatSub(x, y) == FloatAdd(x, FloatNeg(y))

\* x * y
FloatMul(x, y) == RoundFloat(x.sign * y.sign, MulBits(x.m, y.m), x.e + y.e, FALSE)

\* x / 2
FloatHalf(x) == IF x.m = <<>> THEN x ELSE [sign |-> x.sign, m |-> x.m, e |-> x.e - 1]

\* x > 0, and x >= y
FloatPositive(x) == x.sign = 1 /\ x.m # <<>>
FloatGe(x, y) == FloatSub(x, y).sign = 1

(***************************************************************************)
(* Pot odds and expected value (src/src/engine/odds.py)                    *)
(***************************************************************************)
FloatZero == FloatOfInt(0)
FloatOne == FloatOfInt(1)

\* a call that returns value, and one that raises
OddsReturn(value) == [err |-> "none", value |-> value]
OddsRaise(e) == [err |-> e, value |-> NoFloat]

\* the slip of rejecting only a negative call amount: a call of 0 into an
\* empty pot then divides by zero
pot_odds_ZeroCall(p, c) ==
    IF p < 0 THEN OddsRaise("ValueError")
    ELSE IF c < 0 THEN OddsRaise("ValueError")
    ELSE IF p + c = 0 THEN OddsRaise("ZeroDivisionError")
    ELSE OddsReturn(FloatOfRatio(c, p + c))

\* pot_odds(pot, call_amount), for int arguments
pot_odds(p, c) ==
    IF p < 0 THEN OddsRaise("ValueError")
    ELSE IF c <= 0 THEN OddsRaise("ValueError")
    ELSE OddsReturn(FloatOfRatio(c, p + c))

\* ev_call(pot, call_amount, equity), for int amounts and a float equity
ev_call(p, c, eq) ==
    IF p < 0 THEN OddsRaise("ValueError")
    ELSE IF c <= 0 THEN OddsRaise("ValueError")
    ELSE IF ~(FloatGe(eq, FloatZero) /\ FloatGe(FloatOne, eq)) THEN OddsRaise("ValueError")
    ELSE OddsReturn(FloatSub(FloatMul(eq, FloatOfInt(p + c)), FloatOfInt(c)))

\* should_call(pot, call_amount, equity): the returned dict, or the exception
\* of the helper that raised first
should_call(p, c, eq) ==
    LET po == pot_odds(p, c)
        ev == ev_call(p, c, eq)
    IN  IF po.err # "none" THEN [err |-> po.err, dict |-> NoRet.dict]
        ELSE IF ev.err # "none" THEN [err |-> ev.err, dict |-> NoRet.dict]
        ELSE [err |-> "none",
              dict |-> [pot_odds |-> po.value,
                        equity |-> eq,
                        ev |-> ev.value,
                        profitable |-> FloatPositive(ev.value),
                        edge |-> FloatSub(eq, po.value)]]

\* largest pot and largest call amount of a call
MaxPot == 18
MaxCall == 15
\* the equities of a call are the multiples of 1 / EquityDen from just below
\* 0 to just above 1, and the pot odds of the call itself
EquityDen == 4

EquityInputs(p, c) ==
    {FloatOfRatio(n, EquityDen) : n \in 0..(EquityDen + 1)}
        \cup {FloatNeg(FloatOfRatio(1, EquityDen))}
        \cup (IF p >= 0 /\ c > 0 THEN {FloatOfRatio(c, p + c)} ELSE {})

InitOdds ==
    /\ pc = "start" /\ err = "none" /\ EvalIdle /\ EqIdle /\ ExtIdle
    /\ \E p \in (-1)..MaxPot, c \in (-1)..MaxCall :
        /\ pot = <<p>> /\ call_amount = <<c>>
        /\ equity \in EquityInputs(p, c)
    /\ ret = NoRet /\ advice = NoAdvice /\ card_str = <<>> /\ parsed = NoParsed
    /\ hero_cards_selected = <<>> /\ board_cards_selected = <<>>
    /\ current_street = "preflop"

OddsFrame ==
    UNCHANGED <<evalVars, eqVars, extVars, pot, call_amount, equity, advice, card_str, parsed,
                hero_cards_selected, board_cards_selected, current_street>>

CallPotOdds ==
    /\ pc = "start"
    /\ LET r == pot_odds(pot[1], call_amount[1])
       IN  /\ err' = r.err
           /\ ret' = [NoRet EXCEPT !.value = r.value]
    /\ pc' = "pot_odds"
    /\ OddsFrame

CallEvCall ==
    /\ pc = "start"
    /\ LET r == ev_call(pot[1], call_amount[1], equity)
       IN  /\ err' = r.err
           /\ ret' = [NoRet EXCEPT !.value = r.value]
    /\ pc' = "ev_call"
    /\ OddsFrame

CallShouldCall ==
    /\ pc = "start"
    /\ LET r == should_call(pot[1], call_amount[1], equity)
       IN  /\ err' = r.err
           /\ ret' = [NoRet EXCEPT !.dict = r.dict]
    /\ pc' = "should_call"
    /\ OddsFrame

NextOdds ==
    \/ CallPotOdds
    \/ CallEvCall
    \/ CallShouldCall

SpecOdds == InitOdds /\ [][NextOdds]_vars

(***************************************************************************)
(* The rule-based advisor (src/src/advisor/advisor.py)                     *)
(***************************************************************************)
\* _street_name(num_board)
_street_name(num_board) ==
    CASE num_board = 0 -> "preflop"
      [] num_board = 3 -> "flop"
      [] num_board = 4 -> "turn"
      [] num_board = 5 -> "river"
      [] OTHER -> "unknown"

\* the float literals of the rules
StrongEquity == FloatOfRatio(70, 100)
GoodEquity == FloatOfRatio(55, 100)
DecentEquity == FloatOfRatio(35, 100)

\* the float literals of _raise_sizing
PotBetEquity == FloatOfRatio(80, 100)
TwoThirdsEquity == FloatOfRatio(60, 100)
ThreeQuarterPot == FloatOfRatio(75, 100)
TwoThirdsPot == FloatOfRatio(66, 100)
HalfPot == FloatOfRatio(50, 100)
Hundred == FloatOfInt(100)

\* a raise without a size
_raise_sizing_None(eq) == <<>>

\* _raise_sizing(equity), as the bet_sizing of the result
_raise_sizing(eq) ==
    IF FloatGe(eq, PotBetEquity) THEN <<FloatOne>>
    ELSE IF FloatGe(eq, StrongEquity) THEN <<ThreeQuarterPot>>
    ELSE IF FloatGe(eq, TwoThirdsEquity) THEN <<TwoThirdsPot>>
    ELSE <<HalfPot>>

\* rule 1 taken only above the threshold
IsStrongHand_Above(eq) == FloatPositive(FloatSub(eq, StrongEquity))

\* equity >= 0.70
IsStrongHand(eq) == FloatGe(eq, StrongEquity)

\* equity >= 0.55
IsGoodHand(eq) == FloatGe(eq, GoodEquity)

\* equity >= 0.35
IsDecentHand(eq) == FloatGe(eq, DecentEquity)

\* rule 3 taken only with more than 4 outs
HasDrawOuts_Above(total_outs) == total_outs > 4

\* total_outs >= 4
HasDrawOuts(total_outs) == total_outs >= 4

\* total_outs >= 8
HasStrongDraw(total_outs) == total_outs >= 8

\* one bullet of the rationale: the text of the f-string and the values it formats
Bullet(text, args) == [text |-> text, args |-> args]

\* the bullets _decide appends before it applies the rules
DecideBullets(eq, total_outs, flush_draw, straight_draws, pot_odds_val, ev_val, has_pot_info) ==
    LET eq_pct == FloatMul(eq, Hundred)
    IN  <<Bullet("Equity vs random: {eq_pct:.1f}%", <<eq_pct>>)>>
        \o (IF flush_draw # <<>>
            THEN <<Bullet("Flush draw ({flush_draw['outs']} outs)", <<flush_draw[1].outs>>)>>
            ELSE <<>>)
        \o [i \in 1..Len(straight_draws) |->
                Bullet(IF straight_draws[i].type = "oesd"
                       THEN "OESD straight draw ({sd['outs']} outs)"
                       ELSE "Gutshot straight draw ({sd['outs']} outs)",
                       <<straight_draws[i].outs>>)]
        \o (IF total_outs > 0 /\ flush_draw = <<>> /\ straight_draws = <<>>
            THEN <<Bullet("{total_outs} draw outs", <<total_outs>>)>>
            ELSE <<>>)
        \o (IF has_pot_info
            THEN <<Bullet("Pot odds: need {pot_odds_val * 100:.1f}%, have {eq_pct:.1f}% -> EV = {ev_val:+.1f}",
                          <<FloatMul(pot_odds_val[1], Hundred), eq_pct, ev_val[1]>>)>>
            ELSE <<>>)

\* _decide(equity, total_outs, flush_draw, straight_draws, street, pot_odds_val,
\* ev_val, has_pot_info, rationale): the returned tuple, with the rationale list
\* as the call leaves it (None is <<>>, a value v is <<v>>)
_decide(eq, total_outs, flush_draw, straight_draws, street, pot_odds_val, ev_val, has_pot_info, rationale) ==
    LET bullets == rationale \o DecideBullets(eq, total_outs, flush_draw, straight_draws,
                                              pot_odds_val, ev_val, has_pot_info)
        ev_positive == ev_val # <<>> /\ FloatPositive(ev_val[1])
        Decision(action, confidence, bet_sizing, text) ==
            [action |-> action, confidence |-> confidence, bet_sizing |-> bet_sizing,
             rationale |-> bullets \o <<Bullet(text, <<>>)>>]
    IN  IF IsStrongHand(eq)
        THEN Decision("raise", "strong", _raise_sizing(eq), "Strong hand - raise for value")
        ELSE IF IsGoodHand(eq)
        THEN IF has_pot_info /\ ev_positive
             THEN Decision("raise", "moderate", _raise_sizing(eq), "Good equity + positive EV - raise")
             ELSE Decision("raise", "moderate", _raise_sizing(eq), "Good equity - raise or call")
        ELSE IF IsDecentHand(eq) /\ HasDrawOuts(total_outs)
        THEN IF has_pot_info
             THEN IF ev_positive
                  THEN Decision("call", "moderate", <<>>, "Drawing hand with good pot odds - call")
                  ELSE Decision("fold", "marginal", <<>>,
                              "Drawing hand but pot odds unfavorable - fold or call small")
             ELSE Decision("call", "moderate", <<>>, "Drawing hand with outs - call to see next card")
        ELSE IF IsDecentHand(eq)
        THEN IF has_pot_info /\ ev_positive
             THEN Decision("call", "marginal", <<>>, "Decent equity + positive EV - call")
             ELSE IF has_pot_info
             THEN Decision("fold", "marginal", <<>>, "Decent equity but negative EV - fold")
             ELSE Decision("call", "marginal", <<>>, "Marginal hand - proceed with caution")
        ELSE IF HasStrongDraw(total_outs) /\ has_pot_info /\ ev_positive
        THEN Decision("call", "marginal", <<>>, "Weak equity but strong draw with good odds - call")
        ELSE IF HasStrongDraw(total_outs) /\ ~has_pot_info
        THEN Decision("call", "marginal", <<>>, "Weak equity but strong draw - consider calling")
        ELSE Decision("fold", "strong", <<>>, "Weak hand - fold")

\* equity = equity_result['win'] + equity_result['tie'] / 2
EquityOf(equity_result) ==
    FloatAdd(FloatOfRatio(equity_result.win, equity_result.total),
             FloatHalf(FloatOfRatio(equity_result.tie, equity_result.total)))

\* has_pot_info = pot is not None and call_amount is not None and call_amount > 0
HasPotInfo(p, c) == p # <<>> /\ c # <<>> /\ c[1] > 0

\* get_advice from "num_board = len(board_cards)" on: the returned dict, or the
\* exception of pot_odds or ev_call
AdviceFrom(eq, d, board_cards, p, c) ==
    LET has_pot_info == HasPotInfo(p, c)
        po == IF has_pot_info THEN pot_odds(p[1], c[1]) ELSE OddsReturn(NoFloat)
        ev == IF has_pot_info THEN ev_call(p[1], c[1], eq) ELSE OddsReturn(NoFloat)
    IN  IF po.err # "none" THEN [err |-> po.err, advice |-> NoAdvice]
        ELSE IF ev.err # "none" THEN [err |-> ev.err, advice |-> NoAdvice]
        ELSE [err |-> "none",
              advice |-> _decide(eq, d.total_outs, d.flush_draw, d.straight_draws,
                                 _street_name(Len(board_cards)),
                                 IF has_pot_info THEN <<po.value>> ELSE <<>>,
                                 IF has_pot_info THEN <<ev.value>> ELSE <<>>,
                                 has_pot_info, <<>>)]

\* get_advice after equity_vs_random has returned: the equity and the draws
AdviceGather ==
    /\ pc = "done"
    /\ equity' = EquityOf(result)
    /\ draws' = detect_draws(hero, board)
    /\ pc' = "gathered"
    /\ UNCHANGED <<err, evalVars, eqVars, full_board, mc_villain_score, counts, dist, deck,
                   counted_outs, first_call, calls, pot, call_amount, ret, advice, card_str,
                   parsed, hero_cards_selected, board_cards_selected, current_street>>

\* the pot odds, the rules and the return of get_advice
AdviceDecide ==
    /\ pc = "gathered"
    /\ \E r \in {AdviceFrom(equity, draws, board, pot, call_amount)} :
        /\ err' = r.err
        /\ advice' = r.advice
        /\ pc' = IF r.err = "none" THEN "advised" ELSE "raised"
    /\ UNCHANGED <<evalVars, eqVars, extVars, pot, call_amount, equity, ret, card_str, parsed,
                   hero_cards_selected, board_cards_selected, current_street>>

\* the pot and call amounts of a call: none, a call of 0, a small call into a
\* large pot, a large call into an empty pot, a negative pot, a call amount alone
AdvicePots ==
    { [pot |-> <<>>, call_amount |-> <<>>],
      [pot |-> <<MaxPot>>, call_amount |-> <<0>>],
      [pot |-> <<MaxPot>>, call_amount |-> <<1>>],
      [pot |-> <<0>>, call_amount |-> <<MaxCall>>],
      [pot |-> <<-1>>, call_amount |-> <<1>>],
      [pot |-> <<>>, call_amount |-> <<1>>] }

(***************************************************************************)
(* The rules of _decide, on equities, outs and draws of every kind         *)
(***************************************************************************)
\* the equity is win + tie / 2 of a result of DecideTotal runouts
DecideTotal == 20
MaxDecideTies == 1
\* largest total_outs
MaxDecideOuts == 8

\* the draws of a call: none, a flush draw, or an open-ended and a gutshot
\* straight draw
DecideDrawKinds ==
    { [flush_draw |-> <<>>, straight_draws |-> <<>>],
      [flush_draw |-> <<[suit |-> "h", outs |-> 9, hero_cards_in_suit |-> 2,
                         out_cards_rs |-> <<>>]>>,
       straight_draws |-> <<>>],
      [flush_draw |-> <<>>,
       straight_draws |-> <<[target_ranks |-> <<9>>, outs |-> 8, type |-> "oesd"],
                            [target_ranks |-> <<5>>, outs |-> 4, type |-> "gutshot"]>>] }

InitDecide ==
    /\ pc = "gathered" /\ err = "none" /\ EvalIdle
    /\ hero = Prefix(HeroCards, 2) /\ board = Prefix(BoardCards, 3)
    /\ mc_iters = 0 /\ seed = <<>>
    /\ path = "none" /\ rng = 0 /\ iterations = 0
    /\ remaining = <<>> /\ ri = 0 /\ vi = 0 /\ vj = 0 /\ hero_score = 0
    /\ villain = <<>> /\ sample = <<>> /\ iter = 0
    /\ wins = 0 /\ ties = 0 /\ losses = 0
    /\ full_board = <<>> /\ mc_villain_score = 0 /\ counts = <<>> /\ dist = NoDist
    /\ deck = <<>> /\ counted_outs = 0 /\ first_call = NoFirst /\ calls = 0
    /\ \E w \in 0..DecideTotal, t \in 0..MaxDecideTies :
        /\ w + t <= DecideTotal
        /\ result = [win |-> w, tie |-> t, lose |-> DecideTotal - w - t, total |-> DecideTotal]
        /\ equity = EquityOf(result)
    /\ \E k \in DecideDrawKinds, n \in 0..MaxDecideOuts :
        draws = [flush_draw |-> k.flush_draw, straight_draws |-> k.straight_draws,
                 total_outs |-> n, out_cards |-> <<>>]
    /\ \E a \in AdvicePots : pot = a.pot /\ call_amount = a.call_amount
    /\ ret = NoRet /\ advice = NoAdvice /\ card_str = <<>> /\ parsed = NoParsed
    /\ hero_cards_selected = <<>> /\ board_cards_selected = <<>>
    /\ current_street = "preflop"

NextDecide == AdviceDecide

SpecDecide == InitDecide /\ [][NextDecide]_vars

(***************************************************************************)
(* One call of get_advice                                                  *)
(***************************************************************************)
\* river hands: a made flush, ace high without a pair, a pair of nines, and
\* the weakest hand; flop hands with a flush draw
AdviceRiverHands ==
    RiverTestHands \cup
    { [hero |-> <<Card(14,"h"), Card(13,"d")>>,
       board |-> <<Card(12,"h"), Card(11,"c"), Card(8,"d"), Card(4,"s"), Card(2,"c")>>],
      [hero |-> <<Card(9,"h"), Card(9,"d")>>,
       board |-> <<Card(13,"h"), Card(12,"c"), Card(4,"d"), Card(2,"s"), Card(7,"h")>>] }

AdviceFlopHands ==
    { [hero |-> <<Card(14,"h"), Card(9,"h")>>,
       board |-> <<Card(13,"h"), Card(7,"h"), Card(3,"d")>>],
      [hero |-> <<Card(5,"h"), Card(4,"h")>>,
       board |-> <<Card(14,"h"), Card(9,"h"), Card(3,"d")>>] }

AdviceArgs ==
    {[hero |-> t.hero, board |-> t.board, mc_iters |-> 0, seed |-> <<>>] : t \in AdviceRiverHands}
      \cup {[hero |-> t.hero, board |-> Prefix(t.board, b), mc_iters |-> m, seed |-> <<n>>] :
              t \in AdviceFlopHands, b \in {0, 1, 3}, m \in 1..MaxMcSteps, n \in 0..MaxSeed}

InitAdvice ==
    /\ pc = "start" /\ err = "none" /\ EvalIdle /\ ExtIdle /\ CallIdle
    /\ \E a \in AdviceArgs :
        /\ hero = a.hero /\ board = a.board /\ mc_iters = a.mc_iters /\ seed = a.seed
    /\ \E a \in AdvicePots : pot = a.pot /\ call_amount = a.call_amount
    /\ equity = NoFloat /\ ret = NoRet /\ advice = NoAdvice /\ card_str = <<>>
    /\ parsed = NoParsed /\ hero_cards_selected = <<>> /\ board_cards_selected = <<>>
    /\ current_street = "preflop"

NextAdvice ==
    \/ EquityCall
    \/ RiverStep
    \/ RiverReturn
    \/ McIteration
    \/ McReturn
    \/ AdviceGather
    \/ AdviceDecide

SpecAdvice == InitAdvice /\ [][NextAdvice]_vars

(***************************************************************************)
(* Parsing and printing a card (src/src/models/card.py)                    *)
(* A string is the sequence of its characters.                             *)
(***************************************************************************)
\* the keys of rank_map in the order of the dict, and their values
RankMapKeys ==
    <<"2", "3", "4", "5", "6", "7", "8", "9", "T", "t", "J", "j", "Q", "q", "K", "k", "A", "a">>
RankMapValues == <<2, 3, 4, 5, 6, 7, 8, 9, 10, 10, 11, 11, 12, 12, 13, 13, 14, 14>>

\* rank_map[rank_char], 0 where rank_char is no key
RankMapGet(rank_char) ==
    IF \E i \in 1..Len(RankMapKeys) : RankMapKeys[i] = rank_char
    THEN RankMapValues[CHOOSE i \in 1..Len(RankMapKeys) : RankMapKeys[i] = rank_char]
    ELSE 0

\* the upper-case letters of the model and their lower-case forms
UpperChars == <<"T", "J", "Q", "K", "A", "H", "D", "C", "S", "X">>
LowerChars == <<"t", "j", "q", "k", "a", "h", "d", "c", "s", "x">>

\* a suit character taken as it is written
LowerChar_None(ch) == ch

\* ch.lower()
LowerChar(ch) ==
    IF \E i \in 1..Len(UpperChars) : UpperChars[i] = ch
    THEN LowerChars[CHOOSE i \in 1..Len(UpperChars) : UpperChars[i] = ch]
    ELSE ch

\* the values of the Suit enum
SuitValues == {"h", "d", "c", "s"}

\* Card.from_string(card_str): the card, or the ValueError raised
from_string(s) ==
    IF Len(s) # 2
    THEN [err |-> "ValueError: Invalid card string", card |-> <<>>]
    ELSE LET rank_char == s[1]
             suit_char == LowerChar(s[2])
         IN  IF RankMapGet(rank_char) = 0
             THEN [err |-> "ValueError: Invalid rank", card |-> <<>>]
             ELSE IF suit_char \notin SuitValues
             THEN [err |-> "ValueError: Invalid suit", card |-> <<>>]
             ELSE IF ~(2 <= RankMapGet(rank_char) /\ RankMapGet(rank_char) <= 14)
             THEN [err |-> "ValueError: Invalid rank: Must be 2-14", card |-> <<>>]
             ELSE [err |-> "none", card |-> <<Card(RankMapGet(rank_char), suit_char)>>]

\* rank_chars of __repr__, for the ranks 2..14
RankChars == <<"2", "3", "4", "5", "6", "7", "8", "9", "T", "J", "Q", "K", "A">>

\* repr(card) and str(card)
CardRepr(c) == <<RankChars[c.rank - 1], c.suit>>

\* the characters of the tokens: the keys of rank_map, the suits in both
\* cases, and characters that are neither
TokenChars ==
    {RankMapKeys[i] : i \in 1..Len(RankMapKeys)}
        \cup {"h", "d", "c", "s", "H", "D", "C", "S"}
        \cup {"0", "1", "x", "X", " "}

\* longest token
MaxTokenLen == 3

\* the tokens: every string of at most 2 characters, and the printed cards
\* followed by further characters
RECURSIVE LongTokens(_)
LongTokens(n) ==
    IF n <= 2 THEN {CardRepr(c) : c \in {DeckCards[i] : i \in 1..Len(DeckCards)}}
    ELSE {Append(t, ch) : t \in LongTokens(n - 1), ch \in {"h", "0"}}

Tokens ==
    {<<>>} \cup {<<a>> : a \in TokenChars} \cup {<<a, b>> : a \in TokenChars, b \in TokenChars}
        \cup UNION {LongTokens(n) : n \in 3..MaxTokenLen}

InitCard ==
    /\ pc = "start" /\ err = "none" /\ EvalIdle /\ EqIdle /\ ExtIdle
    /\ pot = <<>> /\ call_amount = <<>> /\ equity = NoFloat /\ ret = NoRet
    /\ advice = NoAdvice
    /\ card_str \in Tokens
    /\ parsed = NoParsed
    /\ hero_cards_selected = <<>> /\ board_cards_selected = <<>>
    /\ current_street = "preflop"

CardFrame ==
    UNCHANGED <<evalVars, eqVars, extVars, pot, call_amount, equity, ret, advice,
                hero_cards_selected, board_cards_selected, current_street>>

\* Card.from_string(card_str)
FromString ==
    /\ pc = "start"
    /\ \E r \in {from_string(card_str)} :
        /\ err' = r.err
        /\ parsed' = [parsed EXCEPT !.card = r.card]
        /\ pc' = IF r.err = "none" THEN "parsed" ELSE "raised"
    /\ UNCHANGED card_str
    /\ CardFrame

\* str(card) of the card returned
PrintCard ==
    /\ pc = "parsed"
    /\ parsed' = [parsed EXCEPT !.str = CardRepr(parsed.card[1])]
    /\ pc' = "printed"
    /\ UNCHANGED <<err, card_str>>
    /\ CardFrame

\* Card.from_string(str(card))
FromStringAgain ==
    /\ pc = "printed"
    /\ \E r \in {from_string(parsed.str)} :
        /\ err' = r.err
        /\ parsed' = [parsed EXCEPT !.again = r.card]
        /\ pc' = IF r.err = "none" THEN "reparsed" ELSE "raised again"
    /\ UNCHANGED card_str
    /\ CardFrame

NextCard ==
    \/ FromString
    \/ PrintCard
    \/ FromStringAgain

SpecCard == InitCard /\ [][NextCard]_vars

(***************************************************************************)
(* Streamlit card picker (app.py)                                          *)
(*                                                                         *)
(* Every click reruns the script: the handler of the clicked widget        *)
(* changes st.session_state and calls st.rerun().  A widget can be clicked *)
(* only if the script rendered it for the current session state, and only  *)
(* if it is not disabled.  A card is the string of its rank and suit       *)
(* characters.                                                             *)
(***************************************************************************)
SUITS == <<"h", "d", "c", "s">>
RANKS == <<"A", "K", "Q", "J", "T", "9", "8", "7", "6", "5", "4", "3", "2">>

\* the grid is rendered for the first NumGridRanks ranks of RANKS
NumGridRanks == 3

\* the buttons of render_card_grid
GridCards == { <<RANKS[r], SUITS[s]>> : r \in 1..NumGridRanks, s \in 1..Len(SUITS) }

\* get_all_selected_cards()
get_all_selected_cards ==
    { hero_cards_selected[k] : k \in 1..Len(hero_cards_selected) }
        \cup { board_cards_selected[k] : k \in 1..Len(board_cards_selected) }

\* render_card_button: is_selected_here
IsSelectedHere(current_selected, card) ==
    \E k \in 1..Len(current_selected) : current_selected[k] = card

\* render_card_button: disabled = is_selected_elsewhere
ButtonDisabled(current_selected, card) ==
    card \in get_all_selected_cards /\ ~IsSelectedHere(current_selected, card)

\* a click at capacity that appends without replacing
render_card_button_Grows(current_selected, card, max_cards) ==
    IF IsSelectedHere(current_selected, card)
    THEN RemoveFirst(current_selected, card)
    ELSE Append(current_selected, card)

\* render_card_button: the selection of the context after a click on card
render_card_button(current_selected, card, max_cards) ==
    LET at_max == Len(current_selected) >= max_cards
        suit == LowerChar(card[2])
        same_suit == { k \in 1..Len(current_selected) :
                         LowerChar(current_selected[k][2]) = suit }
        same_suit_card ==
            current_selected[CHOOSE k \in same_suit : \A j \in same_suit : k <= j]
    IN  IF IsSelectedHere(current_selected, card)
        THEN RemoveFirst(current_selected, card)
        ELSE IF at_max
        THEN IF same_suit # {}
             THEN Append(RemoveFirst(current_selected, same_suit_card), card)
             ELSE Append(Tail(current_selected), card)
        ELSE Append(current_selected, card)

hero_count == Len(hero_cards_selected)

\* "Deal Flop" is rendered with the preflop analysis
DealFlopShown == hero_count = 2

\* Step 2 is rendered
FlopStepShown == current_street \in {"flop", "turn", "river"} /\ hero_count = 2

\* Step 2 renders the board grid
FlopGridShown ==
    /\ FlopStepShown
    /\ Len(board_cards_selected) < 3
    /\ Len(board_cards_selected) = 0

\* Step 2 renders the Flop Analysis
FlopAnalysisShown == FlopStepShown /\ Len(board_cards_selected) >= 3

DealTurnShown == FlopAnalysisShown /\ current_street = "flop"

\* Step 3 is rendered
TurnStepShown ==
    current_street \in {"turn", "river"} /\ Len(board_cards_selected) >= 3

TurnGridShown == TurnStepShown /\ Len(board_cards_selected) < 4

\* the Turn Analysis reads hero_cards, which this run of the script assigned
\* only if hero_count == 2: otherwise the run stops with a NameError
TurnAnalysisRaises ==
    TurnStepShown /\ Len(board_cards_selected) >= 4 /\ hero_count # 2

DealRiverShown ==
    /\ TurnStepShown /\ Len(board_cards_selected) >= 4
    /\ ~TurnAnalysisRaises
    /\ current_street = "turn"

\* Step 4 is rendered
RiverStepShown ==
    /\ ~TurnAnalysisRaises
    /\ current_street = "river" /\ Len(board_cards_selected) >= 4

RiverGridShown == RiverStepShown /\ Len(board_cards_selected) < 5

\* the max_cards of the board grid the script renders, 0 if it renders none
BoardGridMax ==
    IF FlopGridShown THEN 3
    ELSE IF TurnGridShown THEN 4
    ELSE IF RiverGridShown THEN 5
    ELSE 0

\* "New Hand" is the last widget of the script
NewHandShown == ~TurnAnalysisRaises

\* the street a rendered Deal button sets
DealShown(street) ==
    \/ street = "flop" /\ DealFlopShown
    \/ street = "turn" /\ DealTurnShown
    \/ street = "river" /\ DealRiverShown

InitPicker ==
    /\ pc = "start" /\ err = "none" /\ EvalIdle /\ EqIdle /\ ExtIdle
    /\ pot = <<>> /\ call_amount = <<>> /\ equity = NoFloat /\ ret = NoRet
    /\ advice = NoAdvice
    /\ card_str = <<>> /\ parsed = NoParsed
    /\ hero_cards_selected = <<>> /\ board_cards_selected = <<>>
    /\ current_street = "preflop"

PickerFrame ==
    UNCHANGED <<err, evalVars, eqVars, extVars, pot, call_amount, equity, ret,
                advice, parsed>>

\* a click on a card button of the hero grid (Step 1, max_cards = 2)
ClickHeroCard ==
    /\ \E card \in GridCards :
        /\ ~ButtonDisabled(hero_cards_selected, card)
        /\ hero_cards_selected' = render_card_button(hero_cards_selected, card, 2)
        /\ card_str' = card
    /\ pc' = "card_hero"
    /\ UNCHANGED <<board_cards_selected, current_street>>
    /\ PickerFrame

\* a click on a card button of the board grid the script renders
ClickBoardCard ==
    /\ BoardGridMax > 0
    /\ \E card \in GridCards :
        /\ ~ButtonDisabled(board_cards_selected, card)
        /\ board_cards_selected' =
               render_card_button(board_cards_selected, card, BoardGridMax)
        /\ card_str' = card
    /\ pc' = "card_board"
    /\ UNCHANGED <<hero_cards_selected, current_street>>
    /\ PickerFrame

\* a click on "Deal Flop", "Deal Turn" or "Deal River"
ClickDeal ==
    /\ \E street \in {"flop", "turn", "river"} :
        /\ DealShown(street)
        /\ current_street' = street
    /\ pc' = "deal"
    /\ UNCHANGED <<hero_cards_selected, board_cards_selected, card_str>>
    /\ PickerFrame

\* a click on "New Hand"
ClickNewHand ==
    /\ NewHandShown
    /\ hero_cards_selected' = <<>>
    /\ board_cards_selected' = <<>>
    /\ current_street' = "preflop"
    /\ pc' = "new_hand"
    /\ UNCHANGED card_str
    /\ PickerFrame

NextPicker ==
    \/ ClickHeroCard
    \/ ClickBoardCard
    \/ ClickDeal
    \/ ClickNewHand

SpecPicker == InitPicker /\ [][NextPicker]_vars

(***************************************************************************)
(* Standard poker ranking, stated on the cards (independent of the scoring) *)
(***************************************************************************)
RankSet(cs) == {cs[k].rank : k \in 1..5}

RankCount(cs, r) == Cardinality({k \in 1..5 : cs[k].rank = r})

WheelRanks == {14, 2, 3, 4, 5}

RefIsFlush(cs) == \A k \in 1..5 : cs[k].suit = cs[1].suit

RefIsStraight(cs) ==
    /\ Cardinality(RankSet(cs)) = 5
    /\ \/ RankSet(cs) = WheelRanks
       \/ \E low \in 2..10 : RankSet(cs) = low..(low + 4)

RefCategoryOf(cs) ==
    LET sizes == {RankCount(cs, r) : r \in RankSet(cs)}
        pairs == Cardinality({r \in RankSet(cs) : RankCount(cs, r) = 2})
    IN  CASE RefIsStraight(cs) /\ RefIsFlush(cs) -> 9
          [] 4 \in sizes -> 8
          [] 3 \in sizes /\ 2 \in sizes -> 7
          [] RefIsFlush(cs) -> 6
          [] RefIsStraight(cs) -> 5
          [] 3 \in sizes -> 4
          [] pairs = 2 -> 3
          [] pairs = 1 -> 2
          [] OTHER -> 1

\* the decisive ranks in order: ranks of larger groups first, then higher ranks;
\* the ace of a wheel counts as 1
RefDecisiveOf(cs) ==
    LET low(r) == IF RankSet(cs) = WheelRanks /\ r = 14 THEN 1 ELSE r
        key(k) == RankCount(cs, cs[k].rank) * 100 + low(cs[k].rank)
        pos(k) == 1 + Cardinality({j \in 1..5 : key(j) > key(k)})
                    + Cardinality({j \in 1..(k - 1) : key(j) = key(k)})
    IN  [p \in 1..5 |-> key(CHOOSE k \in 1..5 : pos(k) = p) % 100]

\* the ranking of every hand of the runs, computed once
RefTable == [h \in Hands5 |-> [category |-> RefCategoryOf(h), decisive |-> RefDecisiveOf(h)]]

RefCategory(cs) == RefTable[cs].category

RefDecisive(cs) == RefTable[cs].decisive

LexGreater(a, b) ==
    \E k \in 1..5 : a[k] > b[k] /\ \A j \in 1..(k - 1) : a[j] = b[j]

RefBeats(a, b) ==
    \/ RefCategory(a) > RefCategory(b)
    \/ RefCategory(a) = RefCategory(b) /\ LexGreater(RefDecisive(a), RefDecisive(b))

RefTie(a, b) ==
    RefCategory(a) = RefCategory(b) /\ RefDecisive(a) = RefDecisive(b)

(***************************************************************************)
(* Claims about evaluate_5 (checked under SpecEval5)                       *)
(***************************************************************************)
\* C1: for two valid 5-card hands, evaluate_5(A) > evaluate_5(B) exactly when A
\* beats B under standard poker ranking (category, then the decisive ranks in
\* order), and the scores are equal exactly when category and decisive ranks
\* are the same.
C1_ScoreOrderIsPokerOrder ==
    pc = "second" =>
        /\ (score > scoreB) <=> RefBeats(cards, cardsB)
        /\ (score = scoreB) <=> RefTie(cards, cardsB)

\* two hands of two pair with the same pairs, decided by the kicker
C1_Witness ==
    /\ pc = "second"
    /\ RefCategory(cards) = 3 /\ RefCategory(cardsB) = 3
    /\ RefDecisive(cards)[1] = RefDecisive(cardsB)[1]
    /\ RefDecisive(cards)[3] = RefDecisive(cardsB)[3]
    /\ RefDecisive(cards)[5] > RefDecisive(cardsB)[5]
    /\ score > scoreB

\* C2: every score is category * 1,000,000 + tiebreaker with
\* 0 < tiebreaker < 1,000,000, the category being the highest-priority match;
\* so a hand of a higher category outscores every hand of a lower one.
C2_CategoryDominates ==
    /\ pc \in {"first", "second"} =>
        /\ score \div 1000000 = RefCategory(cards)
        /\ score % 1000000 > 0
    /\ pc = "second" =>
        /\ scoreB \div 1000000 = RefCategory(cardsB)
        /\ scoreB % 1000000 > 0
        /\ RefCategory(cards) > RefCategory(cardsB) => score > scoreB

\* a full house and a flush: the higher category has the smaller tiebreaker
C2_Witness ==
    /\ pc = "second"
    /\ RefCategory(cards) = 7 /\ RefCategory(cardsB) = 6
    /\ score % 1000000 < scoreB % 1000000
    /\ score > scoreB

\* C3: the wheel A-2-3-4-5 scores 5,000,005 (9,000,005 when suited), less than
\* every other straight (every other straight flush).
C3_WheelIsFiveHigh ==
    /\ (pc \in {"first", "second"} /\ RankSet(cards) = WheelRanks) =>
          score = (IF RefIsFlush(cards) THEN 9000005 ELSE 5000005)
    /\ (/\ pc = "second"
        /\ RankSet(cards) = WheelRanks
        /\ RefIsStraight(cardsB) /\ RankSet(cardsB) # WheelRanks
        /\ RefIsFlush(cardsB) = RefIsFlush(cards)) => score < scoreB

\* the suited wheel against the suited six-high straight
C3_Witness ==
    /\ pc = "second"
    /\ RankSet(cards) = WheelRanks /\ RefIsFlush(cards)
    /\ RankSet(cardsB) = 2..6 /\ RefIsFlush(cardsB)
    /\ score = 9000005 /\ score < scoreB

WheelExample == <<Card(14,"h"), Card(2,"d"), Card(3,"c"), Card(4,"s"), Card(5,"h")>>

SixHighExample == <<Card(6,"h"), Card(5,"d"), Card(4,"c"), Card(3,"s"), Card(2,"d")>>

\* C4 as stated: Ah 2d 3c 4s 5h scores 5,000,005 and 6h 5d 4c 3s 2d scores
\* 5,000,009, the first less than the second.
C4_AsStated ==
    (pc = "second" /\ cards = WheelExample /\ cardsB = SixHighExample) =>
        score = 5000005 /\ scoreB = 5000009 /\ score < scoreB

\* C4 amended: Ah 2d 3c 4s 5h scores 5,000,005 and 6h 5d 4c 3s 2d scores
\* 5,000,006 (5,000,000 plus its high card 6), the first less than the second.
C4_WheelBelowSixHigh ==
    (pc = "second" /\ cards = WheelExample /\ cardsB = SixHighExample) =>
        score = 5000005 /\ scoreB = 5000006 /\ score < scoreB

C4_Witness ==
    pc = "second" /\ cards = WheelExample /\ cardsB = SixHighExample /\ err = "none"

(***************************************************************************)
(* Claims about best_hand_7 (checked under SpecBest7)                      *)
(***************************************************************************)
CardSet(cs) == {cs[k] : k \in 1..Len(cs)}

\* some sequence of the cards of a set
RECURSIVE SeqOfSet(_)
SeqOfSet(S) ==
    IF S = {} THEN <<>>
    ELSE LET c == CHOOSE x \in S : TRUE IN <<c>> \o SeqOfSet(S \ {c})

Max(S) == CHOOSE x \in S : \A y \in S : y <= x

\* the best evaluate_5 score over the five-card subsets of a set of cards
MaxEvaluate5(S) ==
    Max({Evaluate5Score(SeqOfSet(T)) : T \in {U \in SUBSET S : Cardinality(U) = 5}})

\* that maximum for each seven-card hand of the runs, computed once
MaxEvaluate5Table == [n \in 1..SevenHandCount |-> MaxEvaluate5(CardSet(SevenHands[n]))]

RefBest7(cs) ==
    MaxEvaluate5Table[CHOOSE n \in 1..SevenHandCount : CardSet(SevenHands[n]) = CardSet(cs)]

\* C5: for 7 distinct cards in any order, best_hand_7 returns the maximum of
\* evaluate_5 over the 21 five-card subsets, whatever the order of the cards.
C5_Best7IsMaxOfSubsets ==
    pc = "best7" => err = "none" /\ score = RefBest7(cards)

\* the three-pair hand of the test given in an order that is not sorted, the
\* result being aces and kings with the queen
C5_Witness ==
    /\ pc = "best7"
    /\ CardSet(cards) = CardSet(SevenHands[1])
    /\ cards[1].rank < cards[2].rank /\ cards[2].rank < cards[3].rank
    /\ cards[7].rank = 14
    /\ score = Evaluate5Score(<<Card(14,"h"), Card(14,"d"), Card(13,"c"), Card(13,"s"), Card(12,"d")>>)

(***************************************************************************)
(* Claim about the size checks (checked under SpecSize)                    *)
(***************************************************************************)
\* C6: evaluate_5 raises ValueError for every input whose length is not 5,
\* best_hand_7 for every input whose length is not 7; no score is returned then.
C6_SizeValidation ==
    /\ (pc = "evaluate_5" /\ Len(cards) # 5) => (err = "ValueError" /\ score = 0)
    /\ (pc = "best_hand_7" /\ Len(cards) # 7) => (err = "ValueError" /\ score = 0)

\* evaluate_5 refused six cards
C6_Witness == pc = "evaluate_5" /\ Len(cards) = 6 /\ err = "ValueError"

(***************************************************************************)
(* Claims about equity_vs_random (checked under SpecEquity)                *)
(***************************************************************************)
\* C7: the call raises a validation error and returns nothing whenever hero is
\* not 2 cards or the board is not 0, 3, 4 or 5 cards; otherwise the river and
\* the turn go to the exact paths, the flop and preflop to the sampling path.
C7_ValidationAndDispatch ==
    pc # "start" =>
        /\ (Len(hero) # 2 \/ Len(board) \notin ValidBoardLen) =>
              /\ pc = "raised" /\ err = "ValueError"
              /\ path = "none" /\ result = NoResult
        /\ (Len(hero) = 2 /\ Len(board) = 5) => (path = "river_exact" /\ pc \in {"river", "done"})
        /\ (Len(hero) = 2 /\ Len(board) = 4) =>
              (path = "turn_exact" /\ pc \in {"turn_outer", "turn_inner", "done"})
        /\ (Len(hero) = 2 /\ Len(board) \in {0, 3}) => (path = "mc" /\ pc \in {"mc", "done"})

\* a board of two cards refused although hero has two cards
C7_Witness ==
    pc = "raised" /\ Len(hero) = 2 /\ Len(board) = 2 /\ err = "ValueError"

IsValidEquityInput ==
    /\ Len(hero) = 2 /\ Len(board) \in ValidBoardLen
    /\ Cardinality(CardSet(hero \o board)) = Len(hero) + Len(board)

\* C8 as stated: for every valid hero and board and every iteration count and
\* seed, the returned win, tie and lose are each in [0,1] and sum to 1: the
\* counted outcomes equal the denominator.
C8_AsStated ==
    (pc = "done" /\ IsValidEquityInput) =>
        /\ result.total > 0
        /\ result.win \in 0..result.total
        /\ result.tie \in 0..result.total
        /\ result.lose \in 0..result.total
        /\ result.win + result.tie + result.lose = result.total

TupleCard(t) == Card(t[1], Suit[t[2]])

\* the place of a card in the deck (suit by suit, ranks ascending)
DeckPlace(t) == 13 * (t[2] - 1) + (t[1] - 1)

KnownCards == CardSet(hero) \cup CardSet(board)

UnknownCards == {DeckCards[k] : k \in 1..52} \ KnownCards

\* how many unknown cards come before the card t in the deck
UnknownBefore(t) ==
    Cardinality({c \in UnknownCards : DeckPlace(card_to_tuple(c)) < DeckPlace(t)})

\* the number of unordered pairs of n cards, in deck order, up to the pair of
\* the cards after k1 and after k2 others (k1 < k2)
PairsUpTo(k1, k2, n) == k1 * (n - 1) - (k1 * (k1 - 1)) \div 2 + (k2 - k1)

\* the counts of won, tied and lost comparisons of hero against every unordered
\* pair of unknown cards
ShowdownCounts ==
    LET h == MaxEvaluate5(KnownCards)
        pairs == {p \in UnknownCards \X UnknownCards :
                    DeckPlace(card_to_tuple(p[1])) < DeckPlace(card_to_tuple(p[2]))}
        sc == [p \in pairs |-> MaxEvaluate5({p[1], p[2]} \cup CardSet(board))]
    IN  [win |-> Cardinality({p \in pairs : h > sc[p]}),
         tie |-> Cardinality({p \in pairs : h = sc[p]}),
         lose |-> Cardinality({p \in pairs : h < sc[p]}),
         total |-> Cardinality(pairs)]

\* C9: on the river every one of the 990 unordered pairs of the 45 unknown
\* cards is compared once with hero's score (win if greater, tie if equal, lose
\* if smaller) and the result is those counts over 990.
C9_RiverExact ==
    /\ (pc = "river" /\ villain # <<>>) =>
          /\ TupleCard(villain[1]) \in UnknownCards
          /\ TupleCard(villain[2]) \in UnknownCards
          /\ villain[1] # villain[2]
          /\ wins + ties + losses
               = PairsUpTo(UnknownBefore(villain[1]), UnknownBefore(villain[2]), 45)
    /\ (pc = "done" /\ path = "river_exact") =>
          /\ hero_score = MaxEvaluate5(KnownCards)
          /\ result = ShowdownCounts
          /\ result.total = 990

\* a river with wins and ties: hero's broadway straight, tied by the villains
\* who hold an ace and a king
C9_Witness ==
    /\ pc = "done" /\ path = "river_exact"
    /\ result.win > 0 /\ result.tie > 0 /\ result.total = 990

\* C10: on the turn each of the 46 unknown cards is the river once and every
\* villain hand comes from the other 45 unknown cards: it never holds the river
\* card, a hero card or a board card; 46 * 990 = 45,540 outcomes are counted.
C10_TurnExcludesRiver ==
    /\ (path = "turn_exact" /\ pc # "raised") =>
          /\ Len(remaining) = 46
          /\ {TupleCard(remaining[k]) : k \in 1..Len(remaining)} = UnknownCards
          /\ ri \in 0..46
    /\ (/\ path = "turn_exact" /\ villain # <<>>
        /\ \/ pc = "turn_outer"
           \/ pc = "turn_inner" /\ <<vi, vj>> # <<1, 2>>) =>
          /\ villain[1] # remaining[ri] /\ villain[2] # remaining[ri]
          /\ TupleCard(villain[1]) \in UnknownCards
          /\ TupleCard(villain[2]) \in UnknownCards
          /\ villain[1] # villain[2]
    /\ (path = "turn_exact" /\ pc = "turn_outer") => wins + ties + losses = ri * 990
    /\ (path = "turn_exact" /\ pc = "done") =>
          /\ ri = 46
          /\ result.win + result.tie + result.lose = 45540
          /\ result.total = 45540

\* the turn enumeration ran to its end
C10_Witness ==
    /\ pc = "done" /\ path = "turn_exact"
    /\ ri = 46 /\ result.total = 45540 /\ result.win > 0 /\ result.lose > 0

\* the cards of a sequence of evaluator tuples
TupleCards(ts) == {TupleCard(ts[k]) : k \in 1..Len(ts)}

\* C11: in every sampling iteration the cards_to_come + 2 cards are one draw
\* without replacement from the cards not in hero or board; the first
\* cards_to_come complete the board and the last 2 are the opponent's hand, so
\* hero, the 5 board cards and the opponent's cards are pairwise distinct and
\* both hands are scored with the same completed board.
C11_SingleDraw ==
    (path = "mc" /\ iter > 0) =>
        LET cards_to_come == 5 - Len(board)
        IN  /\ Len(sample) = cards_to_come + 2
            /\ \A i, j \in 1..Len(sample) : i # j => sample[i] # sample[j]
            /\ TupleCards(sample) \subseteq UnknownCards
            /\ full_board = cards_to_tuples(board) \o SubSeq(sample, 1, cards_to_come)
            /\ villain = SubSeq(sample, cards_to_come + 1, cards_to_come + 2)
            /\ Len(full_board) = 5
            /\ Cardinality(CardSet(hero) \cup TupleCards(full_board) \cup TupleCards(villain)) = 9
            /\ hero_score = MaxEvaluate5(CardSet(hero) \cup TupleCards(full_board))
            /\ mc_villain_score = MaxEvaluate5(TupleCards(villain) \cup TupleCards(full_board))

\* a second preflop iteration: seven cards drawn, five to the board, two to the
\* opponent
C11_Witness ==
    /\ path = "mc" /\ iter = 2 /\ Len(board) = 0
    /\ Len(sample) = 7 /\ Len(full_board) = 5 /\ Len(villain) = 2
    /\ wins + ties + losses = 2

(***************************************************************************)
(* Claims about hand_distribution (checked under SpecDist)                 *)
(***************************************************************************)
\* C13 as stated: hand_distribution sends a board of 5 to the river path, a
\* board of 4 to the turn path, boards of 3 and 0 to the sampling path, and
\* never returns a distribution when the board has another length or hero is
\* not exactly 2 cards.
C13_AsStated ==
    pc # "start" =>
        /\ (Len(hero) # 2 \/ Len(board) \notin ValidBoardLen) => (pc # "done" /\ dist = NoDist)
        /\ (Len(hero) = 2 /\ Len(board) = 5) => path = "dist_river"
        /\ (Len(hero) = 2 /\ Len(board) = 4) => path = "dist_turn"
        /\ (Len(hero) = 2 /\ Len(board) \in {0, 3}) => path = "dist_mc"

\* the nine category names, by category number
CategoryNames ==
    <<"high_card", "one_pair", "two_pair", "three_of_a_kind", "straight", "flush",
      "full_house", "four_of_a_kind", "straight_flush">>

RECURSIVE SumCounts(_)
SumCounts(items) == IF items = <<>> THEN 0 ELSE Head(items)[2] + SumCounts(Tail(items))

BestCategoryName(S) == CategoryNames[MaxEvaluate5(S) \div 1000000]

\* the count a mapping gives to a name, 0 if the name is absent
CountOf(items, name) ==
    IF \E k \in 1..Len(items) : items[k][1] = name
    THEN items[CHOOSE k \in 1..Len(items) : items[k][1] = name][2]
    ELSE 0

\* C15: on the river the mapping is {category of hero's best hand: 1.0}; on
\* the turn each of the 46 unknown cards is the river exactly once, no known
\* card is, and the probability of a category is the number of unknown cards
\* that give hero that category, over 46.
C15_DistributionExact ==
    /\ (pc = "done" /\ path = "dist_river" /\ IsValidEquityInput) =>
          dist = [items |-> << <<BestCategoryName(KnownCards), 1>> >>, total |-> 1]
    /\ (path = "dist_turn" /\ pc # "raised" /\ IsValidEquityInput) =>
          /\ Len(remaining) = 46
          /\ TupleCards(remaining) = UnknownCards
          /\ ri \in 0..46
          /\ SumCounts(counts) = ri
          /\ ri > 0 => (Len(full_board) = 5 /\ full_board[5] = remaining[ri])
    /\ (pc = "done" /\ path = "dist_turn" /\ IsValidEquityInput) =>
          LET cat == [c \in UnknownCards |-> BestCategoryName(KnownCards \cup {c})]
          IN  /\ dist.total = 46
              /\ \A k \in 1..9 :
                    CountOf(dist.items, CategoryNames[k])
                      = Cardinality({c \in UnknownCards : cat[c] = CategoryNames[k]})

\* the flush draw of the test: 9 of the 46 river cards make the flush
C15_Witness ==
    /\ pc = "done" /\ path = "dist_turn"
    /\ hero = <<Card(14,"h"), Card(13,"h")>> /\ Len(board) = 4
    /\ dist.total = 46 /\ CountOf(dist.items, "flush") = 9

(***************************************************************************)
(* Claim about seeded sampling (checked under SpecTwice)                   *)
(***************************************************************************)
\* C12: two calls of equity_vs_random, and two calls of hand_distribution,
\* with the same hero, board, iteration count and seed return the same
\* mapping: the random source is created in each call from the seed.
C12_SeededDeterminism ==
    (pc = "done" /\ calls = 1 /\ seed # <<>> /\ first_call.fn = path) =>
        /\ result = first_call.result
        /\ dist = first_call.dist

\* two seeded calls of equity_vs_random with two iterations each, which counted
\* one loss
C12_Witness ==
    /\ pc = "done" /\ calls = 1 /\ seed # <<>>
    /\ first_call.fn = "mc" /\ path = "mc"
    /\ result.total = 2 /\ result.lose = 1 /\ first_call.result.lose = 1

(***************************************************************************)
(* Claim about duplicate cards (checked under SpecDup)                     *)
(***************************************************************************)
HasDuplicate == Cardinality(CardSet(hero \o board)) < Len(hero) + Len(board)

\* C16 as stated: whenever a card appears twice across hero and board,
\* equity_vs_random and hand_distribution fail with an error on every street
\* and return nothing.
C16_AsStated ==
    (pc # "start" /\ HasDuplicate) =>
        /\ pc = "raised" /\ err # "none"
        /\ result = NoResult /\ dist = NoDist

(***************************************************************************)
(* Claim about Deck.remove (checked under SpecDeck)                        *)
(***************************************************************************)
\* the deck without the cards of a set, in deck order
DeckWithout(S) ==
    LET Kept(c) == c \notin S IN SelectSeq(DeckCards, Kept)

ListedOnce(list) == Cardinality(CardSet(list)) = Len(list)

\* C17: Deck.remove never changes the deck, which holds the 52 distinct cards
\* after a return and after a failure; when every card to remove is listed
\* once it returns the 52 - n other cards in deck order, and when a card is
\* listed twice it raises an error and returns nothing.
C17_DeckRemoveFrame ==
    /\ deck # <<>> =>
          /\ deck = DeckCards
          /\ Len(deck) = 52 /\ Cardinality(CardSet(deck)) = 52
    /\ (deck # <<>> /\ pc # "start" /\ ListedOnce(cards)) =>
          /\ pc = "done" /\ err = "none"
          /\ remaining = DeckWithout(CardSet(cards))
          /\ Len(remaining) = 52 - Len(cards)
    /\ (deck # <<>> /\ pc # "start" /\ ~ListedOnce(cards)) =>
          /\ pc = "raised" /\ err = "ValueError"
          /\ remaining = <<>>

\* the ace of hearts listed first and third: the call raised after it had
\* removed two cards from its copy
C17_Witness ==
    /\ pc = "raised" /\ deck = DeckCards
    /\ cards = <<Card(14,"h"), Card(13,"s"), Card(14,"h")>>
    /\ err = "ValueError"

(***************************************************************************)
(* Claims about detect_draws (checked under SpecOuts)                      *)
(***************************************************************************)
\* the known cards of a suit, of a rank; the hero cards of a suit
KnownOfSuit(suit) == {c \in KnownCards : c.suit = suit}

KnownOfRank(r) == {c \in KnownCards : c.rank = r}

HeroOfSuit(suit) == {c \in CardSet(hero) : c.suit = suit}

\* C18: for every board whose length is not 3 or 4 (0, 1, 2, 5 and 6 here)
\* detect_draws returns the empty result without raising: no flush draw, no
\* straight draws, total_outs 0 and no out cards; count_outs returns 0.
C18_EmptyOffFlopAndTurn ==
    /\ (pc = "done" /\ Len(board) \notin {3, 4}) =>
          /\ err = "none"
          /\ draws.flush_draw = <<>> /\ draws.straight_draws = <<>>
          /\ draws.total_outs = 0 /\ draws.out_cards = <<>>
    /\ (pc = "counted" /\ Len(board) \notin {3, 4}) =>
          (err = "none" /\ counted_outs = 0)

\* hero's two hearts and a board of two hearts: four to a flush, nothing
\* reported on a board of two cards
C18_Witness ==
    /\ pc = "done" /\ Len(board) = 2
    /\ Cardinality(KnownOfSuit("h")) = 4 /\ Cardinality(HeroOfSuit("h")) = 2
    /\ draws = EmptyDraws

\* the suits that have exactly 4 known cards, one of them at least hero's
FlushDrawSuits ==
    {s \in {"h", "d", "c", "s"} :
        Cardinality(KnownOfSuit(s)) = 4 /\ Cardinality(HeroOfSuit(s)) >= 1}

\* C19: on a flop or turn a flush draw is reported exactly when some suit has
\* exactly 4 cards among hero and board, one at least a hero card; it names
\* that suit, the number of hero cards of the suit, and outs = 13 minus the
\* known cards of the suit.
C19_FlushDrawRule ==
    (pc = "done" /\ Len(board) \in {3, 4}) =>
        /\ (draws.flush_draw # <<>>) <=> (FlushDrawSuits # {})
        /\ draws.flush_draw # <<>> =>
              LET f == draws.flush_draw[1]
              IN  /\ Len(draws.flush_draw) = 1
                  /\ f.suit \in FlushDrawSuits
                  /\ f.hero_cards_in_suit = Cardinality(HeroOfSuit(f.suit))
                  /\ f.outs = 13 - Cardinality(KnownOfSuit(f.suit))

\* a turn with three hearts on the board and one in hero's hand
C19_Witness ==
    /\ pc = "done" /\ Len(board) = 4
    /\ draws.flush_draw # <<>>
    /\ draws.flush_draw[1].suit = "h"
    /\ draws.flush_draw[1].hero_cards_in_suit = 1
    /\ draws.flush_draw[1].outs = 9

\* the 10 five-rank windows
RankWindows == {{14, 2, 3, 4, 5}} \cup {low..(low + 4) : low \in 2..10}

KnownRanks == {c.rank : c \in KnownCards}

HeroRanks == {c.rank : c \in CardSet(hero)}

\* the ranks that are the single missing rank of a window with 4 ranks present
\* and a hero rank inside
StraightTargets ==
    {r \in 2..14 : \E W \in RankWindows :
        /\ Cardinality(W \cap KnownRanks) = 4
        /\ W \ KnownRanks = {r}
        /\ (W \cap HeroRanks) # {}}

\* C20: on a flop or turn there is exactly one straight-draw entry for each
\* rank that is the single missing rank of a window with 4 ranks present and
\* a hero rank inside; its target is the rank and its outs are 4 minus the
\* known cards of that rank; no other rank has an entry, no rank has two.
C20_StraightDrawRule ==
    (pc = "done" /\ Len(board) \in {3, 4}) =>
        LET sd == draws.straight_draws
        IN  /\ {sd[k].target_ranks[1] : k \in 1..Len(sd)} = StraightTargets
            /\ Len(sd) = Cardinality(StraightTargets)
            /\ \A k \in 1..Len(sd) :
                  /\ Len(sd[k].target_ranks) = 1
                  /\ sd[k].outs = 4 - Cardinality(KnownOfRank(sd[k].target_ranks[1]))

\* ace, 2, 3, 4 and 6: the wheel window and the window 2..6 both miss the 5,
\* which is reported once
C20_Witness ==
    /\ pc = "done" /\ Len(board) = 3
    /\ KnownRanks = {14, 2, 3, 4, 6}
    /\ 6 \in HeroRanks /\ 14 \in HeroRanks
    /\ Len(draws.straight_draws) = 1
    /\ draws.straight_draws[1].target_ranks = <<5>>
    /\ draws.straight_draws[1].outs = 4

\* the 10 windows as rank sequences: the wheel with the ace first, the others
\* ascending
RankWindowSeqs == {<<14, 2, 3, 4, 5>>} \cup {[j \in 1..5 |-> low + j - 1] : low \in 2..10}

\* a window qualifies for the missing rank r: 4 of its ranks are held, r is
\* the missing one and a hero rank is inside
QualifiesFor(w, r) ==
    LET W == {w[j] : j \in 1..5}
    IN  /\ Cardinality(W \cap KnownRanks) = 4
        /\ W \ KnownRanks = {r}
        /\ (W \cap HeroRanks) # {}

\* C21 as stated: a reported straight draw with missing rank r is open-ended
\* exactly when some qualifying window for r (4 ranks held and a hero rank
\* inside) has r at its first or last place, otherwise gutshot; a window with
\* 4 held ranks and no hero rank does not make the draw open-ended.
C21_AsStated ==
    (pc = "done" /\ Len(board) \in {3, 4}) =>
        \A k \in 1..Len(draws.straight_draws) :
            LET d == draws.straight_draws[k]
                r == d.target_ranks[1]
            IN  /\ d.type \in {"oesd", "gutshot"}
                /\ (d.type = "oesd") <=>
                      (\E w \in RankWindowSeqs : QualifiesFor(w, r) /\ (w[1] = r \/ w[5] = r))

\* the cards that complete the reported flush draw: the unknown cards of its
\* suit; the cards that complete a reported straight draw: the unknown cards
\* of its missing rank
FlushCompletion ==
    IF draws.flush_draw = <<>> THEN {}
    ELSE {<<r, draws.flush_draw[1].suit>> : r \in 2..14} \ {<<c.rank, c.suit>> : c \in KnownCards}

StraightCompletion ==
    {<<draws.straight_draws[k].target_ranks[1], s>> :
        k \in 1..Len(draws.straight_draws), s \in {"h", "d", "c", "s"}}
      \ {<<c.rank, c.suit>> : c \in KnownCards}

RECURSIVE SumOuts(_)
SumOuts(sd) == IF sd = <<>> THEN 0 ELSE Head(sd).outs + SumOuts(Tail(sd))

\* C22: total_outs is the size of the union of the cards that complete the
\* flush draw and the cards that complete a reported straight draw, a card
\* that completes both counted once; no hero or board card is an out;
\* out_cards lists that union without repeats; total_outs is at most the flush
\* outs plus the sum of the straight-draw outs.
C22_TotalOutsIsUnion ==
    pc = "done" =>
        LET listed == {draws.out_cards[k] : k \in 1..Len(draws.out_cards)}
            flush_outs == IF draws.flush_draw = <<>> THEN 0 ELSE draws.flush_draw[1].outs
        IN  /\ draws.total_outs = Cardinality(FlushCompletion \cup StraightCompletion)
            /\ listed = FlushCompletion \cup StraightCompletion
            /\ Len(draws.out_cards) = Cardinality(listed)
            /\ \A c \in KnownCards : <<c.rank, c.suit>> \notin listed
            /\ draws.total_outs <= flush_outs + SumOuts(draws.straight_draws)

\* four hearts and the ranks ace, 2, 3, 4, 6: nine flush outs and four
\* straight outs, the 5 of hearts being both: 12 outs
C22_Witness ==
    /\ pc = "done" /\ Len(board) = 3
    /\ draws.flush_draw # <<>> /\ draws.flush_draw[1].outs = 9
    /\ Len(draws.straight_draws) = 1 /\ draws.straight_draws[1].outs = 4
    /\ <<5, "h">> \in FlushCompletion \cap StraightCompletion
    /\ draws.total_outs = 12 /\ Len(draws.out_cards) = 12

\* the equity argument is below 0 or above 1, read off the float itself: it is
\* negative, or its highest bit stands at 2^0 or above and it is not 1.0
EquityOutsideUnit ==
    \/ equity.sign = -1 /\ equity.m # <<>>
    \/ /\ equity.m # <<>>
       /\ equity.e + Len(equity.m) - 1 >= 0
       /\ equity # [sign |-> 1, m |-> <<1>>, e |-> 0]

BadAmounts == pot[1] < 0 \/ call_amount[1] <= 0

\* C23: pot_odds raises ValueError exactly when pot < 0 or call_amount <= 0;
\* ev_call and should_call raise ValueError exactly when pot < 0,
\* call_amount <= 0 or equity is outside [0,1]; a call that raises returns no
\* value, and every other call returns one (for should_call, the dict).
C23_DomainErrors ==
    /\ pc = "pot_odds" =>
        /\ err = (IF BadAmounts THEN "ValueError" ELSE "none")
        /\ BadAmounts => ret = NoRet
    /\ pc \in {"ev_call", "should_call"} =>
        /\ err = (IF BadAmounts \/ EquityOutsideUnit THEN "ValueError" ELSE "none")
        /\ (BadAmounts \/ EquityOutsideUnit) => ret = NoRet
    /\ (pc = "should_call" /\ err = "none") => ret.dict.equity = equity

\* should_call has raised for an equity above 1 with a valid pot and call
C23_Witness ==
    /\ pc = "should_call" /\ err = "ValueError"
    /\ pot[1] >= 0 /\ call_amount[1] > 0
    /\ equity.sign = 1 /\ equity.m # <<>>

\* C24 as stated: for pot >= 0 and call > 0, pot_odds is call / (pot + call)
\* and lies in (0,1]; ev_call is 0 at the pot odds, pot at equity 1 and -call
\* at equity 0; should_call reports profitable exactly when ev > 0, and
\* exactly when edge = equity - pot_odds > 0.
C24_AsStated ==
    /\ (pc = "pot_odds" /\ err = "none") =>
        /\ ret.value = FloatOfRatio(call_amount[1], pot[1] + call_amount[1])
        /\ FloatPositive(ret.value) /\ FloatGe(FloatOne, ret.value)
    /\ (pc = "ev_call" /\ err = "none") =>
        /\ equity = FloatOfRatio(call_amount[1], pot[1] + call_amount[1]) => ret.value = FloatZero
        /\ equity = FloatOne => ret.value = FloatOfInt(pot[1])
        /\ equity = FloatZero => ret.value = FloatOfInt(-call_amount[1])
    /\ (pc = "should_call" /\ err = "none") =>
        /\ ret.dict.profitable = FloatPositive(ret.dict.ev)
        /\ ret.dict.profitable = FloatPositive(ret.dict.edge)

\* the advisor was given pot information, and the EV of calling is positive
AdvisedWithPotInfo == HasPotInfo(pot, call_amount)
AdvisedEvPositive ==
    AdvisedWithPotInfo /\ FloatPositive(ev_call(pot[1], call_amount[1], equity).value)

\* C25: whatever the outs and the pot information, an equity of at least 0.70
\* gives raise with confidence strong, and an equity of at least 0.55 and
\* below 0.70 gives raise with confidence moderate.
C25_RaiseRules ==
    pc = "advised" =>
        /\ FloatGe(equity, StrongEquity) =>
            advice.action = "raise" /\ advice.confidence = "strong"
        /\ (FloatGe(equity, GoodEquity) /\ ~FloatGe(equity, StrongEquity)) =>
            advice.action = "raise" /\ advice.confidence = "moderate"

\* an equity of exactly 14/20 with outs and a losing call gave raise/strong,
\* as 2 * wins + ties = 28 of 40 half points
C25_Witness ==
    /\ pc = "advised"
    /\ 2 * result.win + result.tie = 28 /\ result.total = 20
    /\ draws.total_outs = 8
    /\ AdvisedWithPotInfo /\ ~AdvisedEvPositive
    /\ advice.action = "raise" /\ advice.confidence = "strong"

\* C26 as stated: below 0.55, an equity of at least 0.35 with 4 or more outs
\* gives call, an equity below 0.35 with 8 or more outs gives call with
\* confidence marginal, and every other case gives fold, with or without pot
\* and call amounts.
C26_AsStated ==
    (pc = "advised" /\ ~FloatGe(equity, GoodEquity)) =>
        IF FloatGe(equity, DecentEquity) /\ draws.total_outs >= 4
        THEN advice.action = "call"
        ELSE IF ~FloatGe(equity, DecentEquity) /\ draws.total_outs >= 8
        THEN advice.action = "call" /\ advice.confidence = "marginal"
        ELSE advice.action = "fold"

\* C26, amended: below 0.55, an equity of at least 0.35 gives call (moderate
\* with 4 or more outs, marginal with fewer) and an equity below 0.35 with 8 or
\* more outs gives call/marginal, unless pot and call amounts are supplied and
\* the EV of calling is not positive: then the action is fold (marginal for an
\* equity of at least 0.35, strong below); an equity below 0.35 with fewer
\* than 8 outs gives fold/strong.
C26_DrawRules ==
    (pc = "advised" /\ ~FloatGe(equity, GoodEquity)) =>
        LET losing == AdvisedWithPotInfo /\ ~AdvisedEvPositive
        IN  IF FloatGe(equity, DecentEquity)
            THEN IF losing
                 THEN advice.action = "fold" /\ advice.confidence = "marginal"
                 ELSE /\ advice.action = "call"
                      /\ advice.confidence =
                            (IF draws.total_outs >= 4 THEN "moderate" ELSE "marginal")
            ELSE IF draws.total_outs >= 8 /\ ~losing
                 THEN advice.action = "call" /\ advice.confidence = "marginal"
                 ELSE advice.action = "fold" /\ advice.confidence = "strong"

\* a drawing hand (equity 8/20, 4 outs) folded to a call that loses money
C26_Witness ==
    /\ pc = "advised"
    /\ 2 * result.win + result.tie = 16 /\ result.total = 20
    /\ draws.total_outs = 4
    /\ AdvisedWithPotInfo /\ ~AdvisedEvPositive
    /\ advice.action = "fold" /\ advice.confidence = "marginal"

ClaimedRankOf(ch) ==
    CASE ch \in {"T", "t"} -> 10
      [] ch \in {"J", "j"} -> 11
      [] ch \in {"Q", "q"} -> 12
      [] ch \in {"K", "k"} -> 13
      [] ch \in {"A", "a"} -> 14
      [] ch = "2" -> 2 [] ch = "3" -> 3 [] ch = "4" -> 4 [] ch = "5" -> 5
      [] ch = "6" -> 6 [] ch = "7" -> 7 [] ch = "8" -> 8 [] ch = "9" -> 9
      [] OTHER -> 0
ClaimedSuitOf(ch) ==
    CASE ch \in {"h", "H"} -> "h"
      [] ch \in {"d", "D"} -> "d"
      [] ch \in {"c", "C"} -> "c"
      [] ch \in {"s", "S"} -> "s"
      [] OTHER -> "none"

\* C28: Card.from_string returns a Card exactly for the 2-character tokens of
\* a rank character (2-9, T, J, Q, K, A in either case) and a suit character
\* (h, d, c, s in either case), the card of that rank (2..14) and suit; every
\* other token raises ValueError, for its length first, then its rank, then
\* its suit; and parsing the printed form of a card gives the card back, for
\* each of the 52 cards.
C28_ParseAndPrint ==
    /\ pc \in {"parsed", "raised"} =>
        IF Len(card_str) # 2
        THEN pc = "raised" /\ err = "ValueError: Invalid card string"
        ELSE IF ClaimedRankOf(card_str[1]) = 0
        THEN pc = "raised" /\ err = "ValueError: Invalid rank"
        ELSE IF ClaimedSuitOf(card_str[2]) = "none"
        THEN pc = "raised" /\ err = "ValueError: Invalid suit"
        ELSE /\ pc = "parsed" /\ err = "none"
             /\ parsed.card = <<[rank |-> ClaimedRankOf(card_str[1]),
                                 suit |-> ClaimedSuitOf(card_str[2])]>>
             /\ parsed.card[1].rank \in 2..14
    /\ pc # "raised again"
    /\ pc = "reparsed" =>
        /\ parsed.again = parsed.card
        /\ \A i \in 1..Len(DeckCards) :
              from_string(CardRepr(DeckCards[i])) = [err |-> "none", card |-> <<DeckCards[i]>>]

\* the token "tS" was parsed as the ten of spades, printed as "Ts" and parsed
\* again as the same card
C28_Witness ==
    /\ pc = "reparsed"
    /\ card_str = <<"t", "S">>
    /\ parsed = [card |-> <<Card(10, "s")>>, str |-> <<"T", "s">>, again |-> <<Card(10, "s")>>]

(***************************************************************************)
(* Card picker claims                                                      *)
(***************************************************************************)
\* the cards of a selection
SelectedSet(selection) == { selection[k] : k \in 1..Len(selection) }

\* C29: once two hero cards are selected and the street is the flop, the board
\* card grid is available for as long as the board holds fewer than 3 cards
\* (so that three board clicks bring Flop Analysis and Deal Turn).
C29_AsStated ==
    (current_street = "flop" /\ hero_count = 2 /\ Len(board_cards_selected) < 3)
        => BoardGridMax > 0

\* C30: in every state of the picker no card is in both selections, no
\* selection holds a card twice and the hero selection holds at most 2 cards;
\* a hero click at capacity on an unselected card keeps 2 cards, dropping the
\* first selected card of the clicked suit or else the oldest card; after
\* New Hand both selections are empty and the street is preflop.
C30_PickerState ==
    /\ SelectedSet(hero_cards_selected) \cap SelectedSet(board_cards_selected) = {}
    /\ Cardinality(SelectedSet(hero_cards_selected)) = Len(hero_cards_selected)
    /\ Cardinality(SelectedSet(board_cards_selected)) = Len(board_cards_selected)
    /\ Len(hero_cards_selected) <= 2
    /\ pc = "new_hand" =>
        /\ hero_cards_selected = <<>>
        /\ board_cards_selected = <<>>
        /\ current_street = "preflop"

C30_Replacement ==
    (/\ pc' = "card_hero"
     /\ Len(hero_cards_selected) = 2
     /\ card_str' \notin SelectedSet(hero_cards_selected))
        => LET old == hero_cards_selected
               suited == { k \in 1..2 : old[k][2] = card_str'[2] }
               dropped == IF 1 \in suited THEN 1
                          ELSE IF 2 \in suited THEN 2
                          ELSE 1
           IN  hero_cards_selected' = <<old[3 - dropped], card_str'>>

C30_Picker == []C30_PickerState /\ [][C30_Replacement]_vars

\* both replacements have happened: the hero selection is K of hearts and
\* then A of diamonds after a click at capacity
C30_Witness ==
    /\ pc = "card_hero"
    /\ hero_cards_selected = <<<<"K", "h">>, <<"A", "d">>>>
    /\ card_str = <<"A", "d">>
    /\ board_cards_selected = <<<<"A", "h">>>>
    /\ current_street = "flop"

====
